---- MODULE Spec2Model ----
(***************************************************************************)
(* RingBuffer<T> of ringbuf.hpp (src/unnamed/part_005): a fixed-capacity   *)
(* FIFO over a heap array, with raw read/write pointers that may rest at   *)
(* one-past-the-end between calls, and a separate _empty flag.             *)
(*                                                                         *)
(* Pointers into the array are modelled as offsets from _buf (0 .. _size). *)
(* The heap is a map from block ids to arrays, so that allocation and      *)
(* release are visible.  size_t arithmetic is modular.                     *)
(***************************************************************************)
EXTENDS Integers, Sequences, FiniteSets, TLC

\* ---------------------------------------------------------------- bounds
MaxSize == 3
MaxPushes == 6
NumValues == 2
MaxBlocks == 3
CopyMaxSize == 2
CopyMaxPushes == 2
SizeTBits == 16
BinomMaxN == 10
GraphMaxN == 4
RegMaxRecords == 4
RegMaxEmployees == 2
NumNames == 2
NumDeps == 2
NumPoss == 1

\* More iterations than any buffer of the model can hold elements.
DrainFuel == MaxSize + 2

SizeTMod == 2 ^ SizeTBits
Values == 1 .. NumValues
Blocks == 1 .. MaxBlocks

\* ------------------------------------------------------- values and heap
\* A slot of `new T[_size]` that has not been written yet.
Uninit == 0
\* What a call yields when it throws, or when it returns void.
NoValue == -1

\* size_t subtraction.
USub(a, b) == (a - b) % SizeTMod

FreeBlock == [live |-> FALSE, cells |-> << >>]

\* new T[n] placed in block blk: n slots of indeterminate content.
NewArray(h, blk, n) ==
    [h EXCEPT ![blk] = [live |-> TRUE, cells |-> [i \in 1 .. n |-> Uninit]]]

\* delete [] p
DeleteArray(h, blk) == [h EXCEPT ![blk] = FreeBlock]

InBounds(h, blk, ofs) ==
    /\ blk \in Blocks
    /\ h[blk].live
    /\ ofs >= 0
    /\ ofs < Len(h[blk].cells)

\* *(p) as an rvalue, p = block + ofs.  An access outside the array is
\* recorded by the caller in `acc`; the value read there is indeterminate.
Load(h, blk, ofs) ==
    IF InBounds(h, blk, ofs) THEN h[blk].cells[ofs + 1] ELSE Uninit

\* *(p) = v
Store(h, blk, ofs, v) ==
    IF InBounds(h, blk, ofs)
    THEN [h EXCEPT ![blk].cells[ofs + 1] = v]
    ELSE h

\* ------------------------------------------------------------ exceptions
NoErr == [type |-> "none", what |-> ""]
ErrZeroSize ==
    [type |-> "invalid_argument",
     what |-> "Failed to allocate buffer: size cannot be zero."]
ErrFull ==
    [type |-> "out_of_range",
     what |-> "Failed to insert element: buffer is full."]
ErrNoFront ==
    [type |-> "out_of_range", what |-> "No front element: buffer is empty."]
ErrNoBack ==
    [type |-> "out_of_range", what |-> "No back element: buffer is empty."]
ErrNoRead ==
    [type |-> "out_of_range",
     what |-> "Failed to read element: buffer is empty."]
ErrNameNotFound == [type |-> "invalid_argument", what |-> "Name not found"]
ErrDepNotFound ==
    [type |-> "invalid_argument", what |-> "Department not found"]
ErrPosNotFound ==
    [type |-> "invalid_argument", what |-> "Position not found"]
ErrNoSubords == [type |-> "invalid_argument", what |-> "No subordinates"]

\* ------------------------------------------------------------ the object
\* The five private members; buf is the block id, pHead and pTail are
\* offsets from buf.
NoObject ==
    [size |-> 0, buf |-> 0, pHead |-> 0, pTail |-> 0, empty |-> TRUE]

\* The outcome of a call: the object and heap after it, the exception it
\* threw (NoErr if none), its return value and the slot offsets it
\* dereferenced.
Outcome(b, h, e, r, a) ==
    [rb |-> b, heap |-> h, err |-> e, ret |-> r, acc |-> a]

Throw(b, h, e) == Outcome(b, h, e, NoValue, {})

\* ------------------------------------------------- RingBuffer(size_t sz)
\* A constructor that allocates before it validates.
RingBufferAllocFirst(sz, h, blk) ==
    LET h1 == NewArray(h, blk, sz)
    IN  IF sz = 0
        THEN [ok |-> FALSE, rb |-> NoObject, heap |-> h1, err |-> ErrZeroSize]
        ELSE [ok |-> TRUE,
              rb |-> [size |-> sz, buf |-> blk, pHead |-> 0, pTail |-> 0,
                      empty |-> TRUE],
              heap |-> h1, err |-> NoErr]

\* A constructor that forgets to raise the _empty flag.
RingBufferNotEmpty(sz, h, blk) ==
    IF sz = 0
    THEN [ok |-> FALSE, rb |-> NoObject, heap |-> h, err |-> ErrZeroSize]
    ELSE [ok |-> TRUE,
          rb |-> [size |-> sz, buf |-> blk, pHead |-> 0, pTail |-> 0,
                  empty |-> FALSE],
          heap |-> NewArray(h, blk, sz), err |-> NoErr]

\* A constructor that reports a zero size as std::out_of_range.
RingBufferThrowsOutOfRange(sz, h, blk) ==
    IF sz = 0
    THEN [ok |-> FALSE, rb |-> NoObject, heap |-> h,
          err |-> [ErrZeroSize EXCEPT !.type = "out_of_range"]]
    ELSE [ok |-> TRUE,
          rb |-> [size |-> sz, buf |-> blk, pHead |-> 0, pTail |-> 0,
                  empty |-> TRUE],
          heap |-> NewArray(h, blk, sz), err |-> NoErr]

\* The constructor, with blk the block operator new[] hands out.  A throw
\* leaves no object behind (ok = FALSE).
RingBuffer(sz, h, blk) ==
    IF sz = 0
    THEN [ok |-> FALSE, rb |-> NoObject, heap |-> h, err |-> ErrZeroSize]
    ELSE [ok |-> TRUE,
          rb |-> [size |-> sz, buf |-> blk, pHead |-> 0, pTail |-> 0,
                  empty |-> TRUE],
          heap |-> NewArray(h, blk, sz), err |-> NoErr]

\* ~RingBuffer()
DestroyRingBuffer(b, h) == DeleteArray(h, b.buf)

\* ------------------------------------------------------------- observers
getSize(b) == b.size

isEmpty(b) == b.empty

\* getCount whose last branch forgets the `_size -`.
getCountNoComplement(b) ==
    IF b.pTail = b.pHead /\ isEmpty(b) THEN 0
    ELSE IF b.pTail = b.pHead /\ ~isEmpty(b) THEN getSize(b)
    ELSE IF b.pTail > b.pHead THEN USub(b.pTail, b.pHead)
    ELSE USub(b.pHead, b.pTail)

\* getCount without the inverted-pointers case: always _pTail - _pHead.
getCountNoInverted(b) ==
    IF b.pTail = b.pHead /\ isEmpty(b) THEN 0
    ELSE IF b.pTail = b.pHead /\ ~isEmpty(b) THEN getSize(b)
    ELSE USub(b.pTail, b.pHead)

getCount(b) ==
    IF b.pTail = b.pHead /\ isEmpty(b) THEN 0
    ELSE IF b.pTail = b.pHead /\ ~isEmpty(b) THEN getSize(b)
    ELSE IF b.pTail > b.pHead THEN USub(b.pTail, b.pHead)
    ELSE USub(b.size, USub(b.pHead, b.pTail))

getFree(b) == USub(getSize(b), getCount(b))

\* isFull that looks at the pointers only.
isFullByPointers(b) == b.pTail = b.pHead

isFull(b) == getCount(b) = getSize(b)

\* ----------------------------------------------------------------- push
\* push that advances the write pointer before it notices the buffer is
\* full.
pushAdvanceOnFull(b, h, value) ==
    IF isFull(b)
    THEN Throw([b EXCEPT !.pTail = IF @ = b.size THEN 1 ELSE @ + 1], h,
               ErrFull)
    ELSE LET t1 == IF b.pTail = b.size THEN 0 ELSE b.pTail
             b1 == [b EXCEPT !.pTail = t1 + 1]
             b2 == IF isEmpty(b1) THEN [b1 EXCEPT !.empty = FALSE] ELSE b1
         IN  Outcome(b2, Store(h, b.buf, t1, value), NoErr, NoValue, {t1})

\* push that never loops the write pointer back to the beginning.
pushNoLoop(b, h, value) ==
    IF isFull(b)
    THEN Throw(b, h, ErrFull)
    ELSE LET t1 == b.pTail
             b1 == [b EXCEPT !.pTail = t1 + 1]
             b2 == IF isEmpty(b1) THEN [b1 EXCEPT !.empty = FALSE] ELSE b1
         IN  Outcome(b2, Store(h, b.buf, t1, value), NoErr, NoValue, {t1})

\* push that refuses one element early (full tested as getFree() <= 1).
pushFullOffByOne(b, h, value) ==
    IF getFree(b) <= 1
    THEN Throw(b, h, ErrFull)
    ELSE LET t1 == IF b.pTail = b.size THEN 0 ELSE b.pTail
             b1 == [b EXCEPT !.pTail = t1 + 1]
             b2 == IF isEmpty(b1) THEN [b1 EXCEPT !.empty = FALSE] ELSE b1
         IN  Outcome(b2, Store(h, b.buf, t1, value), NoErr, NoValue, {t1})

\* push that moves the write pointer first and stores afterwards.
pushStoresAfterAdvance(b, h, value) ==
    IF isFull(b)
    THEN Throw(b, h, ErrFull)
    ELSE LET t1 == IF b.pTail = b.size THEN 0 ELSE b.pTail
             b1 == [b EXCEPT !.pTail = t1 + 1]
             b2 == IF isEmpty(b1) THEN [b1 EXCEPT !.empty = FALSE] ELSE b1
         IN  Outcome(b2, Store(h, b.buf, t1 + 1, value), NoErr, NoValue,
                     {t1 + 1})

\* push that leaves the _empty flag as it found it.
pushKeepsEmptyFlag(b, h, value) ==
    IF isFull(b)
    THEN Throw(b, h, ErrFull)
    ELSE LET t1 == IF b.pTail = b.size THEN 0 ELSE b.pTail
             b1 == [b EXCEPT !.pTail = t1 + 1]
         IN  Outcome(b1, Store(h, b.buf, t1, value), NoErr, NoValue, {t1})

\* push that loops the write pointer right after moving it, so that the
\* pointer never rests one past the last slot.
pushLoopAfterAdvance(b, h, value) ==
    IF isFull(b)
    THEN Throw(b, h, ErrFull)
    ELSE LET t1 == b.pTail
             b1 == [b EXCEPT !.pTail = IF t1 + 1 = b.size THEN 0 ELSE t1 + 1]
             b2 == IF isEmpty(b1) THEN [b1 EXCEPT !.empty = FALSE] ELSE b1
         IN  Outcome(b2, Store(h, b.buf, t1, value), NoErr, NoValue, {t1})

push(b, h, value) ==
    IF isFull(b)
    THEN Throw(b, h, ErrFull)
    ELSE LET t1 == IF b.pTail = b.size THEN 0 ELSE b.pTail
             b1 == [b EXCEPT !.pTail = t1 + 1]
             b2 == IF isEmpty(b1) THEN [b1 EXCEPT !.empty = FALSE] ELSE b1
         IN  Outcome(b2, Store(h, b.buf, t1, value), NoErr, NoValue, {t1})

\* ---------------------------------------------------------------- front
\* front that loops the read pointer before it checks for emptiness.
frontLoopFirst(b, h) ==
    LET hd == IF b.pHead = b.size THEN 0 ELSE b.pHead
        b1 == [b EXCEPT !.pHead = hd]
    IN  IF isEmpty(b)
        THEN Throw(b1, h, ErrNoFront)
        ELSE Outcome(b1, h, NoErr, Load(h, b.buf, hd), {hd})

\* front that also consumes the element.
frontConsumes(b, h) ==
    IF isEmpty(b)
    THEN Throw(b, h, ErrNoFront)
    ELSE LET hd == IF b.pHead = b.size THEN 0 ELSE b.pHead
             b1 == [b EXCEPT !.pHead = hd + 1]
             b2 == IF b1.pHead = b1.pTail
                   THEN [b1 EXCEPT !.empty = TRUE] ELSE b1
         IN  Outcome(b2, h, NoErr, Load(h, b.buf, hd), {hd})

\* front that never loops the read pointer back to the beginning.
frontNoLoop(b, h) ==
    IF isEmpty(b)
    THEN Throw(b, h, ErrNoFront)
    ELSE Outcome(b, h, NoErr, Load(h, b.buf, b.pHead), {b.pHead})

\* front() is not const: it loops _pHead when it rests at one-past-the-end.
front(b, h) ==
    IF isEmpty(b)
    THEN Throw(b, h, ErrNoFront)
    ELSE LET hd == IF b.pHead = b.size THEN 0 ELSE b.pHead
         IN  Outcome([b EXCEPT !.pHead = hd], h, NoErr,
                     Load(h, b.buf, hd), {hd})

\* ----------------------------------------------------------------- back
\* back that reads the slot under the write pointer.
backAtTail(b, h) ==
    IF isEmpty(b)
    THEN Throw(b, h, ErrNoBack)
    ELSE LET t1 == IF b.pTail = b.size THEN 0 ELSE b.pTail
         IN  Outcome(b, h, NoErr, Load(h, b.buf, t1), {t1})

back(b, h) ==
    IF isEmpty(b)
    THEN Throw(b, h, ErrNoBack)
    ELSE IF b.pTail = 0
         THEN Outcome(b, h, NoErr, Load(h, b.buf, b.size - 1), {b.size - 1})
         ELSE Outcome(b, h, NoErr, Load(h, b.buf, b.pTail - 1),
                      {b.pTail - 1})

\* ------------------------------------------------------------------ pop
\* pop that advances the read pointer before it notices the buffer is
\* empty.
popAdvanceOnEmpty(b, h) ==
    IF isEmpty(b)
    THEN Throw([b EXCEPT !.pHead = IF @ = b.size THEN 1 ELSE @ + 1], h,
               ErrNoRead)
    ELSE LET b1 == [b EXCEPT !.pHead = IF @ = b.size THEN 0 ELSE @]
             f  == front(b1, h)
             b2 == [f.rb EXCEPT !.pHead = @ + 1]
             b3 == IF b2.pHead = b2.pTail
                   THEN [b2 EXCEPT !.empty = TRUE] ELSE b2
         IN  IF f.err # NoErr THEN f
             ELSE Outcome(b3, f.heap, NoErr, f.ret, f.acc)

\* pop that returns the newest element instead of the oldest.
popNewest(b, h) ==
    IF isEmpty(b)
    THEN Throw(b, h, ErrNoRead)
    ELSE LET b1 == [b EXCEPT !.pHead = IF @ = b.size THEN 0 ELSE @]
             f  == back(b1, h)
             b2 == [f.rb EXCEPT !.pHead = @ + 1]
             b3 == IF b2.pHead = b2.pTail
                   THEN [b2 EXCEPT !.empty = TRUE] ELSE b2
         IN  IF f.err # NoErr THEN f
             ELSE Outcome(b3, f.heap, NoErr, f.ret, f.acc)

\* pop that never loops the read pointer back to the beginning.
popNoLoop(b, h) ==
    IF isEmpty(b)
    THEN Throw(b, h, ErrNoRead)
    ELSE LET b2 == [b EXCEPT !.pHead = @ + 1]
             b3 == IF b2.pHead = b2.pTail
                   THEN [b2 EXCEPT !.empty = TRUE] ELSE b2
         IN  Outcome(b3, h, NoErr, Load(h, b.buf, b.pHead), {b.pHead})

\* pop that never sets the _empty flag.
popNeverEmpties(b, h) ==
    IF isEmpty(b)
    THEN Throw(b, h, ErrNoRead)
    ELSE LET b1 == [b EXCEPT !.pHead = IF @ = b.size THEN 0 ELSE @]
             f  == front(b1, h)
             b2 == [f.rb EXCEPT !.pHead = @ + 1]
         IN  IF f.err # NoErr THEN f
             ELSE Outcome(b2, f.heap, NoErr, f.ret, f.acc)

\* pop that compares the pointers before it moves the read pointer.
popEmptyBeforeAdvance(b, h) ==
    IF isEmpty(b)
    THEN Throw(b, h, ErrNoRead)
    ELSE LET b1 == [b EXCEPT !.pHead = IF @ = b.size THEN 0 ELSE @]
             f  == front(b1, h)
             b2 == IF f.rb.pHead = f.rb.pTail
                   THEN [f.rb EXCEPT !.empty = TRUE] ELSE f.rb
             b3 == [b2 EXCEPT !.pHead = @ + 1]
         IN  IF f.err # NoErr THEN f
             ELSE Outcome(b3, f.heap, NoErr, f.ret, f.acc)

pop(b, h) ==
    IF isEmpty(b)
    THEN Throw(b, h, ErrNoRead)
    ELSE LET b1 == [b EXCEPT !.pHead = IF @ = b.size THEN 0 ELSE @]
             f  == front(b1, h)
             b2 == [f.rb EXCEPT !.pHead = @ + 1]
             b3 == IF b2.pHead = b2.pTail
                   THEN [b2 EXCEPT !.empty = TRUE] ELSE b2
         IN  IF f.err # NoErr THEN f
             ELSE Outcome(b3, f.heap, NoErr, f.ret, f.acc)

\* while (!rb.isEmpty()) rb.pop(), collecting what pop returns; n bounds
\* the number of iterations.
RECURSIVE DrainUpTo(_, _, _)
DrainUpTo(b, h, n) ==
    IF n = 0 \/ isEmpty(b)
    THEN << >>
    ELSE LET p == pop(b, h)
         IN  IF p.err # NoErr THEN << >>
             ELSE <<p.ret>> \o DrainUpTo(p.rb, p.heap, n - 1)

Drain(b, h) == DrainUpTo(b, h, getSize(b) + 1)

\* The same loop with everything it does: the buffer it leaves, the
\* exception that ended it (NoErr if none), the number of completed
\* iterations, the values popped, the slots dereferenced, and whether the
\* loop condition became false within n iterations.
RECURSIVE DrainLoop(_, _, _)
DrainLoop(b, h, n) ==
    IF isEmpty(b)
    THEN [rb |-> b, heap |-> h, err |-> NoErr, iters |-> 0, vals |-> << >>,
          acc |-> {}, done |-> TRUE]
    ELSE IF n = 0
    THEN [rb |-> b, heap |-> h, err |-> NoErr, iters |-> 0, vals |-> << >>,
          acc |-> {}, done |-> FALSE]
    ELSE LET p == pop(b, h)
         IN  IF p.err # NoErr
             THEN [rb |-> p.rb, heap |-> p.heap, err |-> p.err, iters |-> 0,
                   vals |-> << >>, acc |-> p.acc, done |-> TRUE]
             ELSE LET d == DrainLoop(p.rb, p.heap, n - 1)
                  IN  [d EXCEPT !.iters = @ + 1, !.vals = <<p.ret>> \o @,
                                !.acc = @ \cup p.acc]

\* ------------------------------------- RingBuffer(const RingBuffer& other)
\* The value `_buf[i] = other._buf[i]` stores.  A source slot that was never
\* written holds an indeterminate value; reading it is undefined, and junk is
\* what the build happens to store in the copy.
CopiedValue(v, junk) == IF v = Uninit THEN junk ELSE v

\* A copy constructor that shares the source's array instead of allocating
\* its own (a shallow copy).
RingBufferCopyShallow(other, h, blk, junk) ==
    [rb |-> other, heap |-> h]

\* A copy constructor that sets both cursors to the beginning of the copy.
RingBufferCopyResetCursors(other, h, blk, junk) ==
    LET h1 == NewArray(h, blk, other.size)
        cells == [i \in 1 .. other.size |->
                      CopiedValue(Load(h, other.buf, i - 1), junk[i])]
    IN  [rb |-> [size |-> other.size, buf |-> blk, pHead |-> 0,
                 pTail |-> 0, empty |-> other.empty],
         heap |-> [h1 EXCEPT ![blk].cells = cells]]

\* The copy constructor, with blk the block operator new[] hands out and
\* junk[i] the outcome of reading slot i - 1 of the source if it is
\* indeterminate.
RingBufferCopy(other, h, blk, junk) ==
    LET h1 == NewArray(h, blk, other.size)
        cells == [i \in 1 .. other.size |->
                      CopiedValue(Load(h, other.buf, i - 1), junk[i])]
    IN  [rb |-> [size |-> other.size, buf |-> blk, pHead |-> other.pHead,
                 pTail |-> other.pTail, empty |-> other.empty],
         heap |-> [h1 EXCEPT ![blk].cells = cells]]

\* ------------------------------------------------------ swap, operator=
\* swap that leaves _size where it was.
swapKeepSize(lhv, rhv) ==
    [lhv |-> [rhv EXCEPT !.size = lhv.size],
     rhv |-> [lhv EXCEPT !.size = rhv.size]]

\* swap(lhv, rhv): the five members change sides.
swap(lhv, rhv) ==
    [lhv |-> [size |-> rhv.size, buf |-> rhv.buf, pHead |-> rhv.pHead,
              pTail |-> rhv.pTail, empty |-> rhv.empty],
     rhv |-> [size |-> lhv.size, buf |-> lhv.buf, pHead |-> lhv.pHead,
              pTail |-> lhv.pTail, empty |-> lhv.empty]]

\* An assignment that copies the members one by one and keeps neither a
\* temporary nor the old array's release.
operatorAssignLeaky(this, rhv, self, h, blk, junk) ==
    IF self
    THEN [this |-> this, heap |-> h]
    ELSE LET c == RingBufferCopy(rhv, h, blk, junk)
         IN  [this |-> c.rb, heap |-> c.heap]

\* An assignment without the test for this == &rhv: it copies and swaps
\* whatever the right-hand side is.
operatorAssignNoSelfCheck(this, rhv, self, h, blk, junk) ==
    LET c == RingBufferCopy(rhv, h, blk, junk)
        s == swap(c.rb, this)
    IN  [this |-> s.rhv, heap |-> DestroyRingBuffer(s.lhv, c.heap)]

\* operator=(const RingBuffer& rhv) on *this; self says this == &rhv.  The
\* temporary copy takes block blk, swaps members with *this and is destroyed
\* on return, releasing the array *this owned before.
operatorAssign(this, rhv, self, h, blk, junk) ==
    IF self
    THEN [this |-> this, heap |-> h]
    ELSE LET c == RingBufferCopy(rhv, h, blk, junk)
             s == swap(c.rb, this)
         IN  [this |-> s.rhv, heap |-> DestroyRingBuffer(s.lhv, c.heap)]


\* ------------------------------------------- the early draft of ringbuf.hpp
\* The draft has the constructor, destructor, getters, push and pop of the
\* final class (pop reads *_pHead itself and push clears _empty without
\* testing it), and a front and a back that test nothing.
draftPush(b, h, value) ==
    IF isFull(b)
    THEN Throw(b, h, ErrFull)
    ELSE LET t1 == IF b.pTail = b.size THEN 0 ELSE b.pTail
             b1 == [b EXCEPT !.pTail = t1 + 1, !.empty = FALSE]
         IN  Outcome(b1, Store(h, b.buf, t1, value), NoErr, NoValue, {t1})

\* What a read of *(buf + ofs) can yield: the slot, or anything at all
\* when buf + ofs is outside the array.
Deref(h, blk, ofs) ==
    IF InBounds(h, blk, ofs) THEN {Load(h, blk, ofs)}
    ELSE Values \cup {Uninit}

\* draft front(): return *_pHead; v is what the read yields
draftFront(b, h, v) == Outcome(b, h, NoErr, v, {b.pHead})

\* The slot the draft back() refers to.
draftBackSlot(b) == IF b.pTail = 0 THEN b.pTail ELSE b.pTail - 1

\* draft back(): v is what the read yields
draftBack(b, h, v) == Outcome(b, h, NoErr, v, {draftBackSlot(b)})

\* draft pop()
draftPop(b, h) ==
    IF isEmpty(b)
    THEN Throw(b, h, ErrNoRead)
    ELSE LET hd == IF b.pHead = b.size THEN 0 ELSE b.pHead
             b2 == [b EXCEPT !.pHead = hd + 1]
             b3 == IF b2.pHead = b2.pTail
                   THEN [b2 EXCEPT !.empty = TRUE] ELSE b2
         IN  Outcome(b3, h, NoErr, Load(h, b.buf, hd), {hd})

\* Where the draft's driver stands: the statement it executes next and the
\* loop variable i.
Driver(pc, i) == [pc |-> pc, i |-> i]

NoDriver == Driver("construct", 0)

\* ------------------------------------------------ stats_lib.c: binom(n, k)
\* unsigned short
UShortMod == 2 ^ 16

\* The three special cases; hit tells whether one of them returned.
binomSpecial(n, k) ==
    IF k = 0 \/ k = n THEN [hit |-> TRUE, ret |-> 1]
    ELSE IF k = 1 \/ k = n - 1 THEN [hit |-> TRUE, ret |-> n]
    ELSE IF k = 2 \/ k = n - 2
         THEN [hit |-> TRUE, ret |-> (n * (n - 1)) \div 2]
         ELSE [hit |-> FALSE, ret |-> 0]

\* if (k > n - k) k = n - k;
binomFold(n, k) == IF k > n - k THEN (n - k) % UShortMod ELSE k

\* One iteration that divides before it multiplies.
binomStepDivideFirst(coeff, n, i) == (coeff \div (i + 1)) * (n - i)

\* coeff *= (n - i); coeff /= (i + 1);
binomStep(coeff, n, i) == (coeff * (n - i)) \div (i + 1)

RECURSIVE binomLoop(_, _, _, _)
binomLoop(coeff, n, k, i) ==
    IF i < k THEN binomLoop(binomStep(coeff, n, i), n, k, i + 1) ELSE coeff

binom(n, k) ==
    IF binomSpecial(n, k).hit
    THEN binomSpecial(n, k).ret
    ELSE binomLoop(1, n, binomFold(n, k), 0)

\* A call of binom in progress: the arguments (k0 is k as passed), the
\* locals, whether every division so far left no remainder, the largest
\* product formed, and the value returned.
BinomFrame(pc, n, k0, k, i, coeff, exact, peak, ret) ==
    [pc |-> pc, n |-> n, k0 |-> k0, k |-> k, i |-> i, coeff |-> coeff,
     exact |-> exact, peak |-> peak, ret |-> ret]

NoBinom == BinomFrame("idle", 0, 0, 0, 0, 1, TRUE, 0, 0)


\* ------------------------------------------- rand_graph_lib.c: G(n, p)
\* gp.E[i++] = 256 * j + k, kept in an unsigned short
PackPair(j, k) == (256 * j + k) % UShortMod

\* u = (gp.E[i] >> 8) & 0xff
PairU(e) == (e \div 256) % 256

\* v = gp.E[i] & 0xff
PairV(e) == e % 256

\* The two nested loops that fill E, from (j, k) on.
RECURSIVE VertexPairs(_, _, _, _)
VertexPairs(n, j, k, acc) ==
    IF ~(j < n) THEN acc
    ELSE IF ~(k < n) THEN VertexPairs(n, j + 1, 0, acc)
    ELSE VertexPairs(n, j, k + 1,
                     IF j < k THEN Append(acc, PackPair(j, k)) ELSE acc)

\* The fields of Graph_Params the graph functions read; E is indexed from
\* 1 here, G[i][j] from 0; calloc zeroes G.
set_rand_gnp_params(n) ==
    [n |-> n,
     m_max |-> binom(n, 2) % UShortMod,
     m_min |-> (n - 1) % UShortMod,
     m_crit |-> binom((n - 1) % UShortMod, 2) % UShortMod,
     E |-> VertexPairs(n, 0, 0, << >>),
     G |-> [i \in 0 .. n - 1 |-> [j \in 0 .. n - 1 |-> 0]]]

\* The body of the loop of construct_rand_gnp for pair i (from 0) when
\* bernoulli_rv returned true.
AddEdge(gp, i) ==
    LET u == PairU(gp.E[i + 1])
        v == PairV(gp.E[i + 1])
    IN  [gp EXCEPT !.G = [[gp.G EXCEPT ![u][v] = u] EXCEPT ![v][u] = v]]

\* destroy_rand_gnp: memset of every row
destroy_rand_gnp(gp) ==
    [gp EXCEPT !.G = [i \in 0 .. gp.n - 1 |-> [j \in 0 .. gp.n - 1 |-> 0]]]

\* A dfs that reads row v instead of column v.
NeighbourByRow(gp, i, v) == gp.G[v][i]

\* u = gp.G[i][v]
Neighbour(gp, i, v) == gp.G[i][v]

\* dfs with `visited` as the set of vertices marked true; dfsLoop is its
\* for loop from index i on.
RECURSIVE dfs(_, _, _)
RECURSIVE dfsLoop(_, _, _, _)
dfsLoop(gp, v, visited, i) ==
    IF ~(i < gp.n) THEN visited
    ELSE LET u == Neighbour(gp, i, v)
         IN  IF u \notin visited
             THEN dfsLoop(gp, v, dfs(gp, u, visited), i + 1)
             ELSE dfsLoop(gp, v, visited, i + 1)

dfs(gp, v, visited) == dfsLoop(gp, v, visited \cup {v}, 0)

\* The for loop of count_connected_components from vertex v on.
RECURSIVE countLoop(_, _, _, _)
countLoop(gp, v, visited, cc_count) ==
    IF ~(v < gp.n) THEN cc_count
    ELSE IF v \notin visited
         THEN countLoop(gp, v + 1, dfs(gp, v, visited),
                        (cc_count + 1) % UShortMod)
         ELSE countLoop(gp, v + 1, visited, cc_count)

count_connected_components(gp) == countLoop(gp, 0, {}, 0)

is_connected(gp) == count_connected_components(gp) = 1

\* A graph under construction or examined: where the caller stands, the
\* parameters, the index of the construction loop, the edges added so far
\* (as sets of two vertices), and what the last examination returned.
NoGraph ==
    [pc |-> "idle",
     gp |-> [n |-> 0, m_max |-> 0, m_min |-> 0, m_crit |-> 0, E |-> << >>,
             G |-> << >>],
     i |-> 0, edges |-> {}, cc |-> 0, conn |-> FALSE]


\* ----------------------------------------------- record.cpp, register.cpp
\* The strings the input file supplies.
NamePool == <<"Ann", "Bob", "Cid", "Dee">>
DepPool == <<"IT", "HR", "PR", "QA">>
PosPool == <<"dev", "lead", "head", "cto">>
Names == {NamePool[i] : i \in 1 .. NumNames}
Deps == {DepPool[i] : i \in 1 .. NumDeps}
Poss == {PosPool[i] : i \in 1 .. NumPoss}

\* The boss field of a line: empty, or the name of the first employee.
Bosses == {"", NamePool[1]}

\* The age field of a line, as its decimal digits, and the working days.
AgeField == <<3, 0>>
DaysField == <<"Mon", "Fri">>

\* std::stoi on a string of decimal digits
RECURSIVE stoi(_)
stoi(digits) ==
    IF digits = << >> THEN 0
    ELSE 10 * stoi(SubSeq(digits, 1, Len(digits) - 1)) + digits[Len(digits)]

\* The addresses operator new can return for a Record.
RecIds == 1 .. RegMaxRecords

\* An address at which no Record lives.
NoRecord ==
    [live |-> FALSE, emp_name_ |-> "", emp_age_ |-> 0, emp_dep_ |-> "",
     emp_pos_ |-> "", emp_boss_ |-> "", emp_days_ |-> << >>]

\* Record::Record(name, age, dep, pos, boss, days)
Record(name, age, dep, pos, boss, days) ==
    [live |-> TRUE, emp_name_ |-> name, emp_age_ |-> stoi(age),
     emp_dep_ |-> dep, emp_pos_ |-> pos,
     emp_boss_ |-> IF boss # "" THEN boss ELSE "n/a", emp_days_ |-> days]

\* Record::Record(const Record& other)
RecordCopy(other) ==
    [live |-> TRUE, emp_name_ |-> other.emp_name_,
     emp_age_ |-> other.emp_age_, emp_dep_ |-> other.emp_dep_,
     emp_pos_ |-> other.emp_pos_, emp_boss_ |-> other.emp_boss_,
     emp_days_ |-> other.emp_days_]

\* A std::map is a function on the keys it holds.
EmptyMap == [k \in {} |-> 0]

\* m[k] = v
MapPut(m, k, v) ==
    [x \in DOMAIN m \cup {k} |-> IF x = k THEN v ELSE m[x]]

\* m[k] of a map of vectors: an absent key yields a new empty vector
MapAt(m, k) == IF k \in DOMAIN m THEN m[k] ELSE << >>

\* Register::Register()
EmptyRegister ==
    [employees_ |-> << >>, name_idx_ |-> EmptyMap, dep_idx_ |-> EmptyMap,
     pos_idx_ |-> EmptyMap, subord_idx_ |-> EmptyMap]

\* Register::getSize, named apart from RingBuffer::getSize
RegisterGetSize(r) == Len(r.employees_)

\* Register::add, with rh the Records on the heap
add(r, rh, pRec) ==
    LET name == rh[pRec].emp_name_
        dep == rh[pRec].emp_dep_
        pos == rh[pRec].emp_pos_
        boss == rh[pRec].emp_boss_
    IN  [employees_ |-> Append(r.employees_, pRec),
         name_idx_ |-> MapPut(r.name_idx_, name, pRec),
         dep_idx_ |-> MapPut(r.dep_idx_, dep,
                             Append(MapAt(r.dep_idx_, dep), pRec)),
         pos_idx_ |-> MapPut(r.pos_idx_, pos,
                             Append(MapAt(r.pos_idx_, pos), pRec)),
         subord_idx_ |-> MapPut(r.subord_idx_, boss,
                                Append(MapAt(r.subord_idx_, boss), name))]

\* The loop of clearRegister over employees_ from position i on: delete
\* every pointer.  bad tells that a pointer was deleted at which no Record
\* lived any more.
RECURSIVE DeleteAll(_, _, _, _)
DeleteAll(rh, emps, i, bad) ==
    IF i > Len(emps) THEN [recs |-> rh, bad |-> bad]
    ELSE DeleteAll([rh EXCEPT ![emps[i]] = NoRecord], emps, i + 1,
                   bad \/ ~rh[emps[i]].live)

\* Register::clearRegister, also the destructor
clearRegister(r, rh) ==
    LET d == DeleteAll(rh, r.employees_, 1, FALSE)
    IN  [reg |-> EmptyRegister, recs |-> d.recs, bad |-> d.bad]

\* operator new hands out the lowest free address.
FirstFreeRecord(rh) ==
    CHOOSE p \in RecIds :
        /\ ~rh[p].live
        /\ \A q \in RecIds : ~rh[q].live => p <= q

\* A copy constructor that stores the source's pointers.
RECURSIVE RegisterCopyShallowFrom(_, _, _, _)
RegisterCopyShallowFrom(r, rh, other, i) ==
    IF i > Len(other.employees_) THEN [reg |-> r, recs |-> rh]
    ELSE RegisterCopyShallowFrom(add(r, rh, other.employees_[i]), rh, other,
                                 i + 1)

\* The loop of the copy constructor from position i of other.employees_ on.
RECURSIVE RegisterCopyFrom(_, _, _, _)
RegisterCopyFrom(r, rh, other, i) ==
    IF i > Len(other.employees_) THEN [reg |-> r, recs |-> rh]
    ELSE LET pRec_copy == FirstFreeRecord(rh)
             rh1 == [rh EXCEPT
                       ![pRec_copy] = RecordCopy(rh[other.employees_[i]])]
         IN  RegisterCopyFrom(add(r, rh1, pRec_copy), rh1, other, i + 1)

\* Register::Register(const Register& other)
RegisterCopy(other, rh) == RegisterCopyFrom(EmptyRegister, rh, other, 1)

\* m[k] of a std::map: an absent key is inserted with a value-initialized
\* entry dflt, and the entry is returned.
MapIndex(m, k, dflt) ==
    IF k \in DOMAIN m THEN [map |-> m, val |-> m[k]]
    ELSE [map |-> MapPut(m, k, dflt), val |-> dflt]

\* The null pointer.
NullRecord == 0

\* The outcome of a lookup: the register after it, the exception it threw
\* and what it returned.
Found(r, v) == [reg |-> r, err |-> NoErr, ret |-> v]

\* Lookups that index the map without looking for the key first.
getRecByNameNoFind(r, name) ==
    LET x == MapIndex(r.name_idx_, name, NullRecord)
    IN  Found([r EXCEPT !.name_idx_ = x.map], x.val)

getEmpByDepNoFind(r, dep) ==
    LET x == MapIndex(r.dep_idx_, dep, << >>)
    IN  Found([r EXCEPT !.dep_idx_ = x.map], x.val)

\* Register::getRecByName
getRecByName(r, name) ==
    IF name \notin DOMAIN r.name_idx_
    THEN [reg |-> r, err |-> ErrNameNotFound, ret |-> NullRecord]
    ELSE LET x == MapIndex(r.name_idx_, name, NullRecord)
         IN  Found([r EXCEPT !.name_idx_ = x.map], x.val)

\* Register::getEmpByDep
getEmpByDep(r, dep) ==
    IF dep \notin DOMAIN r.dep_idx_
    THEN [reg |-> r, err |-> ErrDepNotFound, ret |-> << >>]
    ELSE LET x == MapIndex(r.dep_idx_, dep, << >>)
         IN  Found([r EXCEPT !.dep_idx_ = x.map], x.val)

\* Register::getEmpByPos
getEmpByPos(r, pos) ==
    IF pos \notin DOMAIN r.pos_idx_
    THEN [reg |-> r, err |-> ErrPosNotFound, ret |-> << >>]
    ELSE LET x == MapIndex(r.pos_idx_, pos, << >>)
         IN  Found([r EXCEPT !.pos_idx_ = x.map], x.val)

\* Register::getSubordsByBoss
getSubordsByBoss(r, boss) ==
    IF boss \notin DOMAIN r.subord_idx_
    THEN [reg |-> r, err |-> ErrNoSubords, ret |-> << >>]
    ELSE LET x == MapIndex(r.subord_idx_, boss, << >>)
         IN  Found([r EXCEPT !.subord_idx_ = x.map], x.val)

\* The four lookups by name.
Lookups == {"getRecByName", "getEmpByDep", "getEmpByPos", "getSubordsByBoss"}

Lookup(which, r, key) ==
    CASE which = "getRecByName" -> getRecByName(r, key)
      [] which = "getEmpByDep" -> getEmpByDep(r, key)
      [] which = "getEmpByPos" -> getEmpByPos(r, key)
      [] which = "getSubordsByBoss" -> getSubordsByBoss(r, key)

\* ------------------------------------------------------------ printers.cpp
\* printSubordsByBoss and its recursive dfs, as the activations on the call
\* stack.  A frame is a function in its for loop: key is the boss whose
\* vector of subordinates dir_subords refers to, i the position of the
\* loop in it, level the value of the local level.
Frame(fn, key, i, level) == [fn |-> fn, key |-> key, i |-> i, level |-> level]

\* A call of printSubordsByBoss: pc tells whether it is running or has
\* returned; visited is the VisMap; entered counts the entries of dfs per
\* name; out is what was printed (level, name); err what was caught.
NoWalk ==
    [pc |-> "idle", boss |-> "", stack |-> << >>, visited |-> EmptyMap,
     entered |-> EmptyMap, out |-> << >>, err |-> NoErr]

\* One more entry of dfs for name.
Entered(w, name) ==
    MapPut(w.entered, name, MapIndex(w.entered, name, 0).val + 1)

\* A dfs that does not mark the employee as visited.
dfsSubordsNoMark(subord_name, w, level, r) ==
    LET l == getSubordsByBoss(r, subord_name)
        w1 == [w EXCEPT !.entered = Entered(w, subord_name)]
    IN  IF l.err # NoErr
        THEN [reg |-> l.reg, walk |-> w1]
        ELSE [reg |-> l.reg,
              walk |-> [w1 EXCEPT !.stack =
                           Append(@, Frame("dfs", subord_name, 1,
                                           level + 1))]]

\* dfs(subord_name, visited, level, r) of printers.cpp (named apart from
\* dfs of rand_graph_lib.c), up to its for loop: the employee is marked,
\* level is incremented and the subordinates are looked up; the exception
\* of the lookup is caught and dfs returns.
dfsSubords(subord_name, w, level, r) ==
    LET l == getSubordsByBoss(r, subord_name)
        w1 == [w EXCEPT !.visited = MapPut(@, subord_name, TRUE),
                        !.entered = Entered(w, subord_name)]
    IN  IF l.err # NoErr
        THEN [reg |-> l.reg, walk |-> w1]
        ELSE [reg |-> l.reg,
              walk |-> [w1 EXCEPT !.stack =
                           Append(@, Frame("dfs", subord_name, 1,
                                           level + 1))]]

\* printSubordsByBoss(boss, r) up to its for loop.
printSubordsByBoss(boss, r) ==
    LET l == getSubordsByBoss(r, boss)
    IN  IF l.err # NoErr
        THEN [reg |-> l.reg,
              walk |-> [NoWalk EXCEPT !.pc = "done", !.boss = boss,
                                      !.err = l.err]]
        ELSE [reg |-> l.reg,
              walk |-> [NoWalk EXCEPT
                          !.pc = "run", !.boss = boss,
                          !.stack = <<Frame("printSubordsByBoss", boss, 1,
                                            1)>>,
                          !.visited = [n \in DOMAIN l.reg.name_idx_ |->
                                          FALSE]]]

\* One turn of the for loop of the activation on top of the stack (the two
\* loops have the same body): at the end of the vector the function
\* returns; otherwise the subordinate is printed and, unless visited,
\* dfs is called on it.
SubordLoop(w, r) ==
    LET d == Len(w.stack)
        top == w.stack[d]
        dir_subords == r.subord_idx_[top.key]
    IN  IF top.i > Len(dir_subords)
        THEN [reg |-> r,
              walk |-> [w EXCEPT !.stack = SubSeq(@, 1, d - 1),
                                 !.pc = IF d = 1 THEN "done" ELSE @]]
        ELSE LET dir_subord == dir_subords[top.i]
                 v == MapIndex(w.visited, dir_subord, FALSE)
                 w1 == [w EXCEPT !.stack[d].i = @ + 1,
                                 !.visited = v.map,
                                 !.out = Append(@, <<top.level, dir_subord>>)]
             IN  IF ~v.val
                 THEN dfsSubords(dir_subord, w1, top.level, r)
                 ELSE [reg |-> r, walk |-> w1]

\* The two registers of main: the current one and the copy made for saving.
RegIds == {"reg", "reg_copy"}

NoRegister == [alive |-> FALSE, r |-> EmptyRegister]

\* A statement on a register: what it does, to which register, from which
\* source (or with which key), whether it deleted a pointer twice, and
\* what it threw.
RegStatement(op, g, src, bad) ==
    [op |-> op, reg |-> g, src |-> src, bad |-> bad, err |-> NoErr]

NoRegStatement == RegStatement("none", "", "", FALSE)

\* ---------------------------------------------------------------- state
\* One RingBuffer object driven the way the test drivers drive it: it is
\* constructed, receives any interleaving of push / front / back / pop
\* calls (each try-block catching what the call throws), and goes out of
\* scope.
VARIABLES
    exists,     \* the object's lifetime has begun and not ended
    rb,         \* its five members (NoObject outside its lifetime)
    heap,       \* the free store: block id -> array
    pushed,     \* history: the values of the successful pushes, in order
    popped,     \* history: the values the successful pops returned, in order
    last,       \* the most recent call: what was called and how it ended
    objs,       \* two-object runs: object name -> lifetime flag and members
    npush,      \* two-object runs: pushes that went into each object's value
    lastC,      \* two-object runs: the most recent statement
    bin,        \* stats_lib: the call of binom in progress
    graph,      \* rand_graph_lib: the graph being built or examined
    recs,       \* register: address -> the Record living there
    regs,       \* register: register name -> lifetime flag and members
    lastR,      \* register: the most recent statement
    walk,       \* register: the call of printSubordsByBoss in progress
    drv         \* draft runs: the position of the driver

\* The names of the two objects.
ObjIds == {"a", "b"}

\* A statement of a two-object run: what it does, to which object, from
\* which source object, what it threw, and what getSize() of the object
\* was just before it (0 if the object did not exist yet).
Statement(op, obj, src, e, was) ==
    [op |-> op, obj |-> obj, src |-> src, err |-> e, was |-> was]

NoStatement == Statement("none", "", "", NoErr, 0)

\* An object outside its lifetime.
NoObj == [alive |-> FALSE, rb |-> NoObject]

vars == <<exists, rb, heap, pushed, popped, last, objs, npush, lastC, bin,
         graph, recs, regs, lastR, walk, drv>>

\* The ring buffer runs.
varsRing ==
    <<exists, rb, heap, pushed, popped, last, objs, npush, lastC, drv>>

\* The other programs of the repository, which no ring buffer run touches.
\* The register runs.
varsReg == <<recs, regs, lastR, walk>>

varsOther == <<bin, graph, varsReg>>

\* What a run with a single object leaves alone.
varsB == <<objs, npush, lastC, drv, varsOther>>

\* What a two-object run leaves alone.
varsA == <<exists, rb, pushed, popped, last, drv, varsOther>>

Call(op, arg, o) ==
    [op |-> op, arg |-> arg, err |-> o.err, ret |-> o.ret, acc |-> o.acc]

NoCall == [op |-> "none", arg |-> NoValue, err |-> NoErr, ret |-> NoValue,
           acc |-> {}]

\* No buffer constructed yet.
InitRing ==
    /\ exists = FALSE
    /\ rb = NoObject
    /\ heap = [blk \in Blocks |-> FreeBlock]
    /\ pushed = << >>
    /\ popped = << >>
    /\ last = NoCall
    /\ objs = [o \in ObjIds |-> NoObj]
    /\ npush = [o \in ObjIds |-> 0]
    /\ lastC = NoStatement
    /\ drv = NoDriver

\* No register constructed yet, no Record allocated.
InitReg ==
    /\ recs = [p \in RecIds |-> NoRecord]
    /\ regs = [g \in RegIds |-> NoRegister]
    /\ lastR = NoRegStatement
    /\ walk = NoWalk

Init ==
    /\ InitRing
    /\ bin = NoBinom
    /\ graph = NoGraph
    /\ InitReg

\* RingBuffer<T> rb(sz); inside a try block
Construct(sz) ==
    /\ ~exists
    /\ \E blk \in {k \in Blocks : ~heap[k].live} :
          LET c == RingBuffer(sz, heap, blk)
          IN  /\ exists' = c.ok
              /\ rb' = c.rb
              /\ heap' = c.heap
              /\ last' = [op |-> "construct", arg |-> sz, err |-> c.err,
                          ret |-> NoValue, acc |-> {}]
    /\ pushed' = << >>
    /\ popped' = << >>
    /\ UNCHANGED varsB

\* the object goes out of scope
Destroy ==
    /\ exists
    /\ exists' = FALSE
    /\ heap' = DestroyRingBuffer(rb, heap)
    /\ rb' = NoObject
    /\ last' = [NoCall EXCEPT !.op = "destroy"]
    /\ pushed' = << >>
    /\ popped' = << >>
    /\ UNCHANGED varsB

\* try { rb.push(value); } catch (...) {}
CallPush(value) ==
    /\ exists
    /\ LET o == push(rb, heap, value)
       IN  /\ o.err = NoErr => Len(pushed) < MaxPushes
           /\ rb' = o.rb
           /\ heap' = o.heap
           /\ pushed' = IF o.err = NoErr THEN Append(pushed, value)
                        ELSE pushed
           /\ last' = Call("push", value, o)
    /\ UNCHANGED <<exists, popped>>
    /\ UNCHANGED varsB

\* try { rb.front(); } catch (...) {}
CallFront ==
    /\ exists
    /\ LET o == front(rb, heap)
       IN  /\ rb' = o.rb
           /\ heap' = o.heap
           /\ last' = Call("front", NoValue, o)
    /\ UNCHANGED <<exists, pushed, popped>>
    /\ UNCHANGED varsB

\* try { rb.back(); } catch (...) {}
CallBack ==
    /\ exists
    /\ LET o == back(rb, heap)
       IN  /\ rb' = o.rb
           /\ heap' = o.heap
           /\ last' = Call("back", NoValue, o)
    /\ UNCHANGED <<exists, pushed, popped>>
    /\ UNCHANGED varsB

\* try { rb.pop(); } catch (...) {}
CallPop ==
    /\ exists
    /\ LET o == pop(rb, heap)
       IN  /\ rb' = o.rb
           /\ heap' = o.heap
           /\ popped' = IF o.err = NoErr THEN Append(popped, o.ret)
                        ELSE popped
           /\ last' = Call("pop", NoValue, o)
    /\ UNCHANGED <<exists, pushed>>
    /\ UNCHANGED varsB

\* while (!rb.isEmpty()) rb.pop();
CallDrain ==
    /\ exists
    /\ LET d == DrainLoop(rb, heap, DrainFuel)
       IN  /\ rb' = d.rb
           /\ heap' = d.heap
           /\ popped' = popped \o d.vals
           /\ last' = [op |-> "drain", arg |-> NoValue, err |-> d.err,
                       ret |-> d.iters, acc |-> d.acc]
    /\ UNCHANGED <<exists, pushed>>
    /\ UNCHANGED varsB

Next ==
    \/ \E sz \in 0 .. MaxSize : Construct(sz)
    \/ Destroy
    \/ \E value \in Values : CallPush(value)
    \/ CallFront
    \/ CallBack
    \/ CallPop
    \/ CallDrain

Spec == Init /\ [][Next]_vars

\* ------------------------------------------------ two objects, value copies
\* The drivers of the copy stages: two buffers a and b; each is constructed
\* on its own or as a copy of the other, either is assigned to the other or
\* to itself, both receive calls, and each goes out of scope on its own.
FreeBlocks == {k \in Blocks : ~heap[k].live}

\* Block ids are interchangeable, so in the two-object runs operator new[]
\* is taken to hand out the lowest free block.
FirstFit == {k \in FreeBlocks : \A j \in FreeBlocks : k <= j}

\* The outcomes of reading the slots of source b: anything where the slot
\* is indeterminate (elsewhere the outcome is not used).
Junk(b) ==
    {j \in [1 .. b.size -> Values \cup {Uninit}] :
        \A i \in 1 .. b.size :
            Load(heap, b.buf, i - 1) # Uninit => j[i] = Uninit}

Live(o) == objs[o].alive

Obj(o) == objs[o].rb

\* RingBuffer<T> o(sz);
ConstructObj(o, sz) ==
    /\ ~Live(o)
    /\ \E blk \in FirstFit :
          LET c == RingBuffer(sz, heap, blk)
          IN  /\ objs' = [objs EXCEPT ![o] = [alive |-> c.ok, rb |-> c.rb]]
              /\ heap' = c.heap
              /\ lastC' = Statement("construct", o, "", c.err, 0)
    /\ npush' = [npush EXCEPT ![o] = 0]
    /\ UNCHANGED varsA

\* RingBuffer<T> dst(src);
CopyConstructObj(dst, src) ==
    /\ dst # src
    /\ Live(src)
    /\ ~Live(dst)
    /\ \E blk \in FirstFit, junk \in Junk(Obj(src)) :
          LET c == RingBufferCopy(Obj(src), heap, blk, junk)
          IN  /\ objs' = [objs EXCEPT ![dst] = [alive |-> TRUE, rb |-> c.rb]]
              /\ heap' = c.heap
    /\ npush' = [npush EXCEPT ![dst] = npush[src]]
    /\ lastC' = Statement("copy", dst, src, NoErr, 0)
    /\ UNCHANGED varsA

\* o goes out of scope
DestroyObj(o) ==
    /\ Live(o)
    /\ objs' = [objs EXCEPT ![o] = NoObj]
    /\ heap' = DestroyRingBuffer(Obj(o), heap)
    /\ npush' = [npush EXCEPT ![o] = 0]
    /\ lastC' = Statement("destroy", o, "", NoErr, 0)
    /\ UNCHANGED varsA

\* try { o.push(value); } catch (...) {}
CallPushObj(o, value) ==
    /\ Live(o)
    /\ LET r == push(Obj(o), heap, value)
       IN  /\ r.err = NoErr => npush[o] < CopyMaxPushes
           /\ objs' = [objs EXCEPT ![o].rb = r.rb]
           /\ heap' = r.heap
           /\ npush' = IF r.err = NoErr
                       THEN [npush EXCEPT ![o] = @ + 1] ELSE npush
           /\ lastC' = Statement("push", o, "", r.err, getSize(Obj(o)))
    /\ UNCHANGED varsA

\* try { o.front(); } catch (...) {}
CallFrontObj(o) ==
    /\ Live(o)
    /\ LET r == front(Obj(o), heap)
       IN  /\ objs' = [objs EXCEPT ![o].rb = r.rb]
           /\ heap' = r.heap
           /\ lastC' = Statement("front", o, "", r.err, getSize(Obj(o)))
    /\ UNCHANGED npush
    /\ UNCHANGED varsA

\* try { o.back(); } catch (...) {}
CallBackObj(o) ==
    /\ Live(o)
    /\ LET r == back(Obj(o), heap)
       IN  /\ objs' = [objs EXCEPT ![o].rb = r.rb]
           /\ heap' = r.heap
           /\ lastC' = Statement("back", o, "", r.err, getSize(Obj(o)))
    /\ UNCHANGED npush
    /\ UNCHANGED varsA

\* try { o.pop(); } catch (...) {}
CallPopObj(o) ==
    /\ Live(o)
    /\ LET r == pop(Obj(o), heap)
       IN  /\ objs' = [objs EXCEPT ![o].rb = r.rb]
           /\ heap' = r.heap
           /\ lastC' = Statement("pop", o, "", r.err, getSize(Obj(o)))
    /\ UNCHANGED npush
    /\ UNCHANGED varsA

\* dst = src;  (dst and src may name the same object)
AssignObj(dst, src) ==
    /\ Live(dst)
    /\ Live(src)
    /\ \E blk \in FirstFit, junk \in Junk(Obj(src)) :
          LET r == operatorAssign(Obj(dst), Obj(src), dst = src, heap, blk,
                                  junk)
          IN  /\ objs' = [objs EXCEPT ![dst].rb = r.this]
              /\ heap' = r.heap
    /\ npush' = [npush EXCEPT ![dst] = npush[src]]
    /\ lastC' = Statement("assign", dst, src, NoErr,
                        getSize(Obj(dst)))
    /\ UNCHANGED varsA

NextCopy ==
    \/ \E o \in ObjIds, sz \in 1 .. CopyMaxSize : ConstructObj(o, sz)
    \/ \E dst \in ObjIds, src \in ObjIds : CopyConstructObj(dst, src)
    \/ \E o \in ObjIds : DestroyObj(o)
    \/ \E o \in ObjIds, value \in Values : CallPushObj(o, value)
    \/ \E o \in ObjIds : CallFrontObj(o)
    \/ \E o \in ObjIds : CallBackObj(o)
    \/ \E o \in ObjIds : CallPopObj(o)
    \/ \E dst \in ObjIds, src \in ObjIds : AssignObj(dst, src)

SpecCopy == Init /\ [][NextCopy]_vars

\* ------------------------------------------------------ binom(n, k) called
\* binom is entered with 0 <= k <= n <= BinomMaxN.
InitBinom ==
    /\ InitRing
    /\ \E n \in 0 .. BinomMaxN, k \in 0 .. BinomMaxN :
          /\ k <= n
          /\ bin = BinomFrame("call", n, k, k, 0, 1, TRUE, 0, 0)
    /\ graph = NoGraph
    /\ InitReg

\* the special cases, or the entry into the general case
BinomEnter ==
    /\ bin.pc = "call"
    /\ LET sp == binomSpecial(bin.n, bin.k)
       IN  bin' = IF sp.hit
                  THEN [bin EXCEPT !.pc = "done", !.ret = sp.ret,
                                   !.peak = IF bin.k = 2 \/ bin.k = bin.n - 2
                                            THEN bin.n * (bin.n - 1) ELSE 0]
                  ELSE [bin EXCEPT !.pc = "loop",
                                   !.k = binomFold(bin.n, bin.k)]
    /\ UNCHANGED <<varsRing, graph, varsReg>>

\* one iteration of the for loop
BinomIterate ==
    /\ bin.pc = "loop"
    /\ bin.i < bin.k
    /\ bin' = [bin EXCEPT
                  !.coeff = binomStep(bin.coeff, bin.n, bin.i),
                  !.exact = @ /\ (bin.coeff * (bin.n - bin.i)) % (bin.i + 1) = 0,
                  !.peak = IF bin.coeff * (bin.n - bin.i) > @
                           THEN bin.coeff * (bin.n - bin.i) ELSE @,
                  !.i = (@ + 1) % UShortMod]
    /\ UNCHANGED <<varsRing, graph, varsReg>>

\* return coeff;
BinomReturn ==
    /\ bin.pc = "loop"
    /\ ~(bin.i < bin.k)
    /\ bin' = [bin EXCEPT !.pc = "done", !.ret = bin.coeff]
    /\ UNCHANGED <<varsRing, graph, varsReg>>

NextBinom ==
    \/ BinomEnter
    \/ BinomIterate
    \/ BinomReturn

SpecBinom == InitBinom /\ [][NextBinom]_vars

\* ------------------------------------------- random graphs built, examined
\* gp = set_rand_gnp_params(n, p) with 1 <= n <= GraphMaxN
InitGraph ==
    /\ InitRing
    /\ bin = NoBinom
    /\ InitReg
    /\ \E n \in 1 .. GraphMaxN :
          graph = [pc |-> "construct", gp |-> set_rand_gnp_params(n),
                   i |-> 0, edges |-> {}, cc |-> 0, conn |-> FALSE]

\* one iteration of the loop of construct_rand_gnp; b is what
\* bernoulli_rv(gp.p_edge) returned
ConstructStep(b) ==
    /\ graph.pc = "construct"
    /\ graph.i < graph.gp.m_max
    /\ graph' = IF b
                THEN [graph EXCEPT
                        !.gp = AddEdge(graph.gp, graph.i),
                        !.edges = @ \cup {{PairU(graph.gp.E[graph.i + 1]),
                                           PairV(graph.gp.E[graph.i + 1])}},
                        !.i = (@ + 1) % UShortMod]
                ELSE [graph EXCEPT !.i = (@ + 1) % UShortMod]
    /\ UNCHANGED <<varsRing, bin, varsReg>>

\* the construction loop has ended; the caller asks is_connected(gp)
Examine ==
    /\ graph.pc = "construct"
    /\ ~(graph.i < graph.gp.m_max)
    /\ graph' = [graph EXCEPT
                    !.pc = "examined",
                    !.cc = count_connected_components(graph.gp),
                    !.conn = is_connected(graph.gp)]
    /\ UNCHANGED <<varsRing, bin, varsReg>>

\* destroy_rand_gnp(gp), after which the next graph is constructed
DestroyGraph ==
    /\ graph.pc = "examined"
    /\ graph' = [graph EXCEPT !.pc = "construct",
                              !.gp = destroy_rand_gnp(graph.gp),
                              !.i = 0, !.edges = {}, !.cc = 0,
                              !.conn = FALSE]
    /\ UNCHANGED <<varsRing, bin, varsReg>>

NextGraph ==
    \/ \E b \in BOOLEAN : ConstructStep(b)
    \/ Examine
    \/ DestroyGraph

SpecGraph == InitGraph /\ [][NextGraph]_vars

\* ------------------------------------------------- the employee register
FreeRecords == {p \in RecIds : ~recs[p].live}

RegLive(g) == regs[g].alive

Reg(g) == regs[g].r

\* main is at its menu: no call of printSubordsByBoss is in progress.
AtMenu == walk = NoWalk

\* Register g;
ConstructReg(g) ==
    /\ AtMenu
    /\ ~RegLive(g)
    /\ regs' = [regs EXCEPT ![g] = [alive |-> TRUE, r |-> EmptyRegister]]
    /\ lastR' = RegStatement("construct", g, "", FALSE)
    /\ UNCHANGED <<recs, walk, varsRing, bin, graph>>

\* one line of the file: pRec = new Record(...); reg.add(pRec);
AddRecord(name, dep, pos, boss) ==
    /\ AtMenu
    /\ RegLive("reg")
    /\ RegisterGetSize(Reg("reg")) < RegMaxEmployees
    /\ FreeRecords # {}
    /\ LET pRec == FirstFreeRecord(recs)
           rh == [recs EXCEPT
                    ![pRec] = Record(name, AgeField, dep, pos, boss,
                                     DaysField)]
       IN  /\ recs' = rh
           /\ regs' = [regs EXCEPT !["reg"].r = add(Reg("reg"), rh, pRec)]
    /\ lastR' = RegStatement("add", "reg", "", FALSE)
    /\ UNCHANGED <<walk, varsRing, bin, graph>>

\* g.clearRegister();
ClearReg(g) ==
    /\ AtMenu
    /\ RegLive(g)
    /\ LET c == clearRegister(Reg(g), recs)
       IN  /\ recs' = c.recs
           /\ regs' = [regs EXCEPT ![g].r = c.reg]
           /\ lastR' = RegStatement("clear", g, "", c.bad)
    /\ UNCHANGED <<walk, varsRing, bin, graph>>

\* Register dst(src);
CopyReg(dst, src) ==
    /\ AtMenu
    /\ dst # src
    /\ RegLive(src)
    /\ ~RegLive(dst)
    /\ Cardinality(FreeRecords) >= RegisterGetSize(Reg(src))
    /\ LET c == RegisterCopy(Reg(src), recs)
       IN  /\ recs' = c.recs
           /\ regs' = [regs EXCEPT ![dst] = [alive |-> TRUE, r |-> c.reg]]
    /\ lastR' = RegStatement("copy", dst, src, FALSE)
    /\ UNCHANGED <<walk, varsRing, bin, graph>>

\* g leaves its scope: ~Register()
DestroyReg(g) ==
    /\ AtMenu
    /\ RegLive(g)
    /\ LET c == clearRegister(Reg(g), recs)
       IN  /\ recs' = c.recs
           /\ regs' = [regs EXCEPT ![g] = NoRegister]
           /\ lastR' = RegStatement("destroy", g, "", c.bad)
    /\ UNCHANGED <<walk, varsRing, bin, graph>>

NextReg ==
    \/ \E g \in RegIds : ConstructReg(g)
    \/ \E name \in Names, dep \in Deps, pos \in Poss, boss \in Bosses :
          AddRecord(name, dep, pos, boss)
    \/ \E g \in RegIds : ClearReg(g)
    \/ \E dst \in RegIds, src \in RegIds : CopyReg(dst, src)
    \/ \E g \in RegIds : DestroyReg(g)

SpecReg == Init /\ [][NextReg]_vars

\* ------------------------------------------- the menu's lookups and print
\* The menu of main on the current register: load lines (L), clear (C),
\* find by name, department or position (E, D, T) and show the
\* subordinates of an employee (O).
\* The boss field of a line when any employee may be the boss.
AnyBoss == {""} \cup Names

\* What the user may type as a key of each lookup: what the lines of the
\* file carry, and one key none of them carries.
Keys(which) ==
    CASE which = "getRecByName" -> Names \cup {NamePool[NumNames + 1]}
      [] which = "getEmpByDep" -> Deps \cup {DepPool[NumDeps + 1]}
      [] which = "getEmpByPos" -> Poss \cup {PosPool[NumPoss + 1]}
      [] which = "getSubordsByBoss" ->
            Names \cup {NamePool[NumNames + 1], "n/a"}

\* The activations of a print never outnumber the names by more than one;
\* a stack beyond this bound is not followed further.
WalkFuel == RegMaxEmployees + 2

\* try { reg.<which>(key); } catch (const std::exception& e) {}
CallLookup(which, key) ==
    /\ AtMenu
    /\ RegLive("reg")
    /\ LET l == Lookup(which, Reg("reg"), key)
       IN  /\ regs' = [regs EXCEPT !["reg"].r = l.reg]
           /\ lastR' = [RegStatement(which, "reg", key, FALSE) EXCEPT
                          !.err = l.err]
    /\ UNCHANGED <<recs, walk, varsRing, bin, graph>>

\* (O): unless the name is in neither the name index nor the subordinate
\* index, printSubordsByBoss(boss, reg) is called and reaches its loop.
PrintStart(boss) ==
    /\ AtMenu
    /\ RegLive("reg")
    /\ IF /\ boss \notin DOMAIN Reg("reg").name_idx_
          /\ boss \notin DOMAIN Reg("reg").subord_idx_
       THEN /\ lastR' = [RegStatement("print", "reg", boss, FALSE) EXCEPT
                           !.err = ErrNameNotFound]
            /\ UNCHANGED <<regs, walk>>
       ELSE LET p == printSubordsByBoss(boss, Reg("reg"))
            IN  /\ regs' = [regs EXCEPT !["reg"].r = p.reg]
                /\ walk' = p.walk
                /\ lastR' = RegStatement("print", "reg", boss, FALSE)
    /\ UNCHANGED <<recs, varsRing, bin, graph>>

\* one turn of the loop of the running activation
PrintStep ==
    /\ walk.pc = "run"
    /\ Len(walk.stack) <= WalkFuel
    /\ LET p == SubordLoop(walk, Reg("reg"))
       IN  /\ regs' = [regs EXCEPT !["reg"].r = p.reg]
           /\ walk' = p.walk
    /\ UNCHANGED <<recs, lastR, varsRing, bin, graph>>

\* printSubordsByBoss has returned; main goes back to its menu
PrintEnd ==
    /\ walk.pc = "done"
    /\ walk' = NoWalk
    /\ UNCHANGED <<recs, regs, lastR, varsRing, bin, graph>>

NextQuery ==
    \/ ConstructReg("reg")
    \/ \E name \in Names, dep \in Deps, pos \in Poss, boss \in AnyBoss :
          AddRecord(name, dep, pos, boss)
    \/ ClearReg("reg")
    \/ \E which \in Lookups : \E key \in Keys(which) : CallLookup(which, key)
    \/ \E boss \in Keys("getSubordsByBoss") : PrintStart(boss)
    \/ PrintStep
    \/ PrintEnd

\* The program runs a started print on: nothing but the program itself
\* takes the steps of the loop and the return.
SpecQuery ==
    Init /\ [][NextQuery]_vars /\ WF_vars(PrintStep) /\ WF_vars(PrintEnd)

\* -------------------------------------------- the draft under its driver
\* The driver of the draft: a buffer of size sz; getSize() + 1 turns of
\* push, each successful push followed by back(); then getSize() + 1 turns
\* of front() followed by pop().  Every turn is a try block that catches
\* what the call throws.
\* What the draft run leaves alone.
varsD == <<objs, npush, lastC, varsOther>>

\* The statement after a turn of a loop: the next turn, or what follows
\* the loop.
NextTurn(pc, after) ==
    IF drv.i + 1 < getSize(rb) + 1 THEN Driver(pc, drv.i + 1)
    ELSE Driver(after, 0)

\* try { RingBuffer<int> rb1(0); } catch ...   and   RingBuffer<int> rb2(sz);
DraftConstruct(sz) ==
    /\ drv.pc = "construct"
    /\ \E blk \in {k \in Blocks : ~heap[k].live} :
          LET c == RingBuffer(sz, heap, blk)
          IN  /\ exists' = c.ok
              /\ rb' = c.rb
              /\ heap' = c.heap
              /\ last' = [op |-> "construct", arg |-> sz, err |-> c.err,
                          ret |-> NoValue, acc |-> {}]
              /\ drv' = IF c.ok THEN Driver("push", 0) ELSE drv
    /\ pushed' = << >>
    /\ popped' = << >>
    /\ UNCHANGED varsD

\* rb2.push(i);
DraftPush(value) ==
    /\ drv.pc = "push"
    /\ LET o == draftPush(rb, heap, value)
       IN  /\ rb' = o.rb
           /\ heap' = o.heap
           /\ pushed' = IF o.err = NoErr THEN Append(pushed, value)
                        ELSE pushed
           /\ last' = Call("push", value, o)
           /\ drv' = IF o.err = NoErr THEN Driver("back", drv.i)
                     ELSE NextTurn("push", "front")
    /\ UNCHANGED <<exists, popped>>
    /\ UNCHANGED varsD

\* std::cout << rb2.back();
DraftBack ==
    /\ drv.pc = "back"
    /\ \E v \in Deref(heap, rb.buf, draftBackSlot(rb)) :
          LET o == draftBack(rb, heap, v)
          IN  /\ rb' = o.rb
              /\ heap' = o.heap
              /\ last' = Call("back", NoValue, o)
    /\ drv' = NextTurn("push", "front")
    /\ UNCHANGED <<exists, pushed, popped>>
    /\ UNCHANGED varsD

\* std::cout << rb2.front();
DraftFront ==
    /\ drv.pc = "front"
    /\ \E v \in Deref(heap, rb.buf, rb.pHead) :
          LET o == draftFront(rb, heap, v)
          IN  /\ rb' = o.rb
              /\ heap' = o.heap
              /\ last' = Call("front", NoValue, o)
    /\ drv' = Driver("pop", drv.i)
    /\ UNCHANGED <<exists, pushed, popped>>
    /\ UNCHANGED varsD

\* std::cout << rb2.pop();
DraftPop ==
    /\ drv.pc = "pop"
    /\ LET o == draftPop(rb, heap)
       IN  /\ rb' = o.rb
           /\ heap' = o.heap
           /\ popped' = IF o.err = NoErr THEN Append(popped, o.ret)
                        ELSE popped
           /\ last' = Call("pop", NoValue, o)
    /\ drv' = NextTurn("front", "end")
    /\ UNCHANGED <<exists, pushed>>
    /\ UNCHANGED varsD

NextDraft ==
    \/ \E sz \in 0 .. MaxSize : DraftConstruct(sz)
    \/ \E value \in Values : DraftPush(value)
    \/ DraftBack
    \/ DraftFront
    \/ DraftPop

SpecDraft == Init /\ [][NextDraft]_vars

\* ---------------------------------------------------------------- claims
IsPrefix(s, t) ==
    /\ Len(s) <= Len(t)
    /\ \A n \in 1 .. Len(s) : s[n] = t[n]

\* The forward distance from head to tail modulo the capacity, with the
\* tie at distance 0 broken by the flag alone.
ForwardDistance(b) ==
    IF b.empty THEN 0
    ELSE LET d == (b.pTail - b.pHead) % b.size
         IN  IF d = 0 THEN b.size ELSE d

\* C1: FIFO order.  For every capacity and every interleaving of calls,
\* the n-th successful pop returned the value of the n-th successful push:
\* the values popped so far are a prefix of the values pushed so far, and
\* a pop that has just succeeded returned the value at its own rank.
C1_FifoOrder ==
    exists =>
        /\ IsPrefix(popped, pushed)
        /\ (last.op = "pop" /\ last.err = NoErr) =>
              /\ Len(popped) >= 1
              /\ last.ret = pushed[Len(popped)]

\* C1 witness: a buffer of capacity 2 that has wrapped, with three pops
\* done and two different values among them.
C1_Witness ==
    /\ exists
    /\ rb.size = 2
    /\ Len(popped) >= 3
    /\ popped[1] # popped[2]
    /\ last.op = "pop"
    /\ last.err = NoErr

\* C2: getCount() is the number of successful pushes minus the number of
\* successful pops, whatever the raw cursor positions; it is 0 when empty,
\* getSize() when full and the forward modular distance from head to tail
\* otherwise.
C2_CountIsPushesMinusPops ==
    exists =>
        /\ getCount(rb) = Len(pushed) - Len(popped)
        /\ getCount(rb) = ForwardDistance(rb)
        /\ isEmpty(rb) => getCount(rb) = 0
        /\ (~isEmpty(rb) /\ rb.pHead % rb.size = rb.pTail % rb.size)
              => getCount(rb) = getSize(rb)

\* C2 witness: the head rests at one-past-the-end while the tail has
\* already wrapped behind it, in a buffer that is neither empty nor full.
C2_Witness ==
    /\ exists
    /\ rb.pHead = rb.size
    /\ rb.pTail < rb.pHead
    /\ getCount(rb) = 1
    /\ getSize(rb) >= 2

\* C3: push on a full buffer throws the buffer-full error and changes
\* nothing: not the cursors, not the flag, not the count, not any slot.
C3_FailedPushChangesNothing ==
    [][ (exists /\ getCount(rb) = getSize(rb) /\ last'.op = "push") =>
          /\ last'.err = ErrFull
          /\ last'.acc = {}
          /\ rb' = rb
          /\ heap' = heap
          /\ getCount(rb') = getCount(rb)
          /\ pushed' = pushed ]_vars

\* C3 witness: a push has just been refused on a buffer that filled up
\* again after wrapping.
C3_Witness ==
    /\ exists
    /\ last.op = "push"
    /\ last.err = ErrFull
    /\ Len(popped) >= 1
    /\ getCount(rb) = getSize(rb)

\* C4: pop on an empty buffer, fresh or drained, throws the buffer-empty
\* error and changes nothing: head, tail, flag and count are as before.
C4_FailedPopChangesNothing ==
    [][ (exists /\ getCount(rb) = 0 /\ last'.op = "pop") =>
          /\ last'.err = ErrNoRead
          /\ last'.acc = {}
          /\ rb' = rb
          /\ heap' = heap
          /\ getCount(rb') = getCount(rb)
          /\ popped' = popped ]_vars

\* C4 witness: a pop has just been refused on a drained buffer whose
\* cursors are not at the beginning.
C4_Witness ==
    /\ exists
    /\ last.op = "pop"
    /\ last.err = ErrNoRead
    /\ Len(popped) >= 1
    /\ rb.pHead = rb.size

\* C5: front() and back() on an empty buffer throw the buffer-empty
\* error, dereference no slot and leave head, tail and the flag as they
\* were.
C5_FrontBackOnEmpty ==
    [][ (exists /\ getCount(rb) = 0) =>
          /\ (last'.op = "front" =>
                /\ last'.err = ErrNoFront
                /\ last'.acc = {}
                /\ rb' = rb
                /\ heap' = heap)
          /\ (last'.op = "back" =>
                /\ last'.err = ErrNoBack
                /\ last'.acc = {}
                /\ rb' = rb
                /\ heap' = heap) ]_vars

\* C5 witness: front() has just been refused on a drained buffer whose
\* read pointer rests at one-past-the-end.
C5_Witness ==
    /\ exists
    /\ last.op = "front"
    /\ last.err = ErrNoFront
    /\ rb.pHead = rb.size
    /\ Len(popped) >= 1

\* C6: constructing with capacity 0 throws the invalid-capacity error
\* before anything is allocated: afterwards there is no object and no
\* allocated block.
C6_ZeroCapacityFails ==
    (last.op = "construct" /\ last.arg = 0) =>
        /\ last.err = ErrZeroSize
        /\ ~exists
        /\ rb = NoObject
        /\ \A blk \in Blocks : ~heap[blk].live

\* C6 witness: a construction with capacity 0 has just been attempted.
C6_Witness ==
    /\ last.op = "construct"
    /\ last.arg = 0
    /\ last.err # NoErr

\* C7: a freshly constructed buffer of capacity c >= 1 has head = tail =
\* 0, getSize() = c, getCount() = 0, isEmpty(), not isFull() and
\* getFree() = c.
C7_FreshBuffer ==
    (last.op = "construct" /\ last.arg >= 1) =>
        /\ last.err = NoErr
        /\ exists
        /\ rb.pHead = 0
        /\ rb.pTail = 0
        /\ getSize(rb) = last.arg
        /\ getCount(rb) = 0
        /\ isEmpty(rb)
        /\ ~isFull(rb)
        /\ getFree(rb) = last.arg
        /\ heap[rb.buf].live
        /\ Len(heap[rb.buf].cells) = last.arg

\* C7 witness: a buffer of the largest capacity has just been constructed.
C7_Witness ==
    /\ last.op = "construct"
    /\ last.arg = MaxSize
    /\ exists

\* C8: 0 <= getCount() <= getSize() in every reachable state, so the
\* unsigned subtraction in getFree() never wraps and getFree() lies in
\* [0, getSize()].
C8_CountWithinCapacity ==
    exists =>
        /\ getCount(rb) >= 0
        /\ getCount(rb) <= getSize(rb)
        /\ getFree(rb) = getSize(rb) - getCount(rb)
        /\ getFree(rb) >= 0
        /\ getFree(rb) <= getSize(rb)

\* C8 witness: a buffer of the largest capacity, one short of full, whose
\* cursors are inverted (tail behind head).
C8_Witness ==
    /\ exists
    /\ rb.pTail < rb.pHead
    /\ getFree(rb) = 1
    /\ getSize(rb) = MaxSize

\* C9: on a non-empty buffer front() returns the value the next pop()
\* returns, the oldest live element, and removes nothing: getCount(),
\* isEmpty(), isFull(), back() and the values later pops return are the
\* same after the call as before it.
C9_FrontIsNextPop ==
    [][ (exists /\ getCount(rb) > 0 /\ last'.op = "front") =>
          /\ last'.err = NoErr
          /\ last'.ret = pop(rb, heap).ret
          /\ last'.ret = pop(rb', heap').ret
          /\ last'.ret = pushed[Len(popped) + 1]
          /\ getCount(rb') = getCount(rb)
          /\ isEmpty(rb') = isEmpty(rb)
          /\ isFull(rb') = isFull(rb)
          /\ back(rb', heap').ret = back(rb, heap).ret
          /\ back(rb', heap').err = back(rb, heap).err
          /\ Drain(rb', heap') = Drain(rb, heap)
          /\ Len(Drain(rb', heap')) = getCount(rb)
          /\ heap' = heap
          /\ pushed' = pushed
          /\ popped' = popped ]_vars

\* C9 witness: front() has just returned on a buffer whose read pointer
\* rested at one-past-the-end, so the call moved it back to the beginning.
C9_Witness ==
    /\ exists
    /\ last.op = "front"
    /\ last.err = NoErr
    /\ rb.pHead = 0
    /\ Len(popped) >= 1
    /\ getCount(rb) >= 2

\* C10: on a non-empty buffer back() returns the value of the most recent
\* successful push, also after the write pointer has wrapped, and the call
\* changes no member of the buffer.
C10_BackIsLastPush ==
    [][ /\ (exists' /\ ~isEmpty(rb')) =>
              /\ back(rb', heap').err = NoErr
              /\ back(rb', heap').ret = pushed'[Len(pushed')]
        /\ (exists /\ getCount(rb) > 0 /\ last'.op = "back") =>
              /\ last'.err = NoErr
              /\ last'.ret = pushed[Len(pushed)]
              /\ rb' = rb
              /\ heap' = heap ]_vars

\* C10 witness: back() has just returned on a buffer whose write pointer
\* has wrapped and stands one slot after the beginning.
C10_Witness ==
    /\ exists
    /\ last.op = "back"
    /\ last.err = NoErr
    /\ getSize(rb) >= 2
    /\ Len(pushed) > getSize(rb)
    /\ rb.pTail = 1

\* What a caller can observe of a live buffer without changing its content:
\* capacity, count, the two flags, front(), back() and the values a drain
\* would return.
Observed(b, h) ==
    [size |-> getSize(b), count |-> getCount(b), empty |-> isEmpty(b),
     full |-> isFull(b), front |-> front(b, h).ret,
     frontErr |-> front(b, h).err, back |-> back(b, h).ret,
     backErr |-> back(b, h).err, drain |-> Drain(b, h)]

Cells(b, h) == h[b.buf].cells

C12_CopyIndependence ==
    [][ \A o \in ObjIds, p \in ObjIds :
          (o # p /\ objs[o].alive /\ objs'[o].alive) =>
             /\ (lastC'.op = "copy" /\ lastC'.obj = p /\ lastC'.src = o) =>
                   /\ objs'[o] = objs[o]
                   /\ heap'[Obj(o).buf] = heap[Obj(o).buf]
                   /\ objs'[p].rb.buf # objs'[o].rb.buf
             /\ (lastC'.op \in {"push", "pop", "front"} /\ lastC'.obj = p) =>
                   /\ objs'[o] = objs[o]
                   /\ Observed(objs'[o].rb, heap') = Observed(Obj(o), heap) ]_vars

\* C12 witness: b holds the same capacity-1 array content as a, a is still
\* full, and b has just been popped empty and pushed again (its cursors
\* wrapped) without a changing.
C12_Witness ==
    /\ Live("a")
    /\ Live("b")
    /\ lastC.op = "push"
    /\ lastC.obj = "b"
    /\ lastC.err = NoErr
    /\ npush["b"] = 2
    /\ npush["a"] = 1
    /\ getSize(Obj("a")) = 1
    /\ getSize(Obj("b")) = 1
    /\ isFull(Obj("a"))
    /\ Drain(Obj("a"), heap) # Drain(Obj("b"), heap)

\* C13: copy assignment dst = src between two distinct buffers of any
\* capacities and fill levels leaves src unchanged and makes dst equal to
\* src in getSize(), getCount(), isEmpty() and the sequence of its pops;
\* the two own different arrays, so calls on one do not affect the other.
C13_AssignmentCopies ==
    [][ (lastC'.op = "assign" /\ lastC'.obj # lastC'.src) =>
          LET dst == lastC'.obj
              src == lastC'.src
          IN  /\ objs'[src] = objs[src]
              /\ heap'[Obj(src).buf] = heap[Obj(src).buf]
              /\ objs'[dst].alive
              /\ getSize(objs'[dst].rb) = getSize(Obj(src))
              /\ getCount(objs'[dst].rb) = getCount(Obj(src))
              /\ isEmpty(objs'[dst].rb) = isEmpty(Obj(src))
              /\ Drain(objs'[dst].rb, heap') = Drain(Obj(src), heap)
              /\ objs'[dst].rb.buf # objs'[src].rb.buf
              /\ heap'[objs'[dst].rb.buf].live
              /\ \A value \in Values :
                    LET r == push(objs'[dst].rb, heap', value)
                        q == pop(objs'[dst].rb, heap')
                    IN  /\ Observed(Obj(src), r.heap)
                            = Observed(Obj(src), heap)
                        /\ Observed(Obj(src), q.heap)
                            = Observed(Obj(src), heap) ]_vars

\* C13 witness: a has just been assigned from b, b holds two elements, and
\* a had another capacity before.
C13_Witness ==
    /\ lastC.op = "assign"
    /\ lastC.obj = "a"
    /\ lastC.src = "b"
    /\ lastC.was # getSize(Obj("a"))
    /\ getCount(Obj("b")) = 2
    /\ Drain(Obj("a"), heap) = Drain(Obj("b"), heap)

\* Every live object owns a live array of its capacity, no two live
\* objects own the same array, and every allocated array has an owner.
Ownership(ob, h) ==
    /\ \A o \in ObjIds :
          ob[o].alive =>
             /\ ob[o].rb.buf \in Blocks
             /\ h[ob[o].rb.buf].live
             /\ Len(h[ob[o].rb.buf].cells) = ob[o].rb.size
    /\ \A o \in ObjIds, p \in ObjIds :
          (o # p /\ ob[o].alive /\ ob[p].alive) => ob[o].rb.buf # ob[p].rb.buf
    /\ \A blk \in Blocks :
          h[blk].live => \E o \in ObjIds : ob[o].alive /\ ob[o].rb.buf = blk

\* C14: storage ownership.  Over any sequence of constructions, copy
\* constructions, assignments and destructions, no two live buffers own
\* the same array; every array is released exactly once: the array a
\* destructor or an assignment releases is one that is allocated at that
\* moment and belonged to that object, and no array is left without an
\* owner; destroying one buffer leaves the other's array allocated and
\* untouched.
C14_StorageOwnership ==
    [][ /\ Ownership(objs', heap')
        /\ lastC'.op = "destroy" =>
              LET o == lastC'.obj
              IN  /\ heap[Obj(o).buf].live
                  /\ ~heap'[Obj(o).buf].live
                  /\ \A blk \in Blocks \ {Obj(o).buf} : heap'[blk] = heap[blk]
                  /\ \A p \in ObjIds \ {o} : objs'[p] = objs[p]
        /\ (lastC'.op = "assign" /\ lastC'.obj # lastC'.src) =>
              LET o == lastC'.obj
              IN  /\ heap[Obj(o).buf].live
                  /\ ~heap'[Obj(o).buf].live
                  /\ Cardinality({blk \in Blocks : heap'[blk].live})
                        = Cardinality({blk \in Blocks : heap[blk].live}) ]_vars

\* C14 witness: b has just been destroyed while a, of which it was a copy
\* in content, lives on with its full array allocated, the only one.
C14_Witness ==
    /\ lastC.op = "destroy"
    /\ lastC.obj = "b"
    /\ Live("a")
    /\ isFull(Obj("a"))
    /\ Len(Drain(Obj("a"), heap)) = 2
    /\ Cardinality({blk \in Blocks : heap[blk].live}) = 1

\* C15: getSize() of an object is the capacity passed at its construction
\* in every later state of the object, whatever is applied to it: push,
\* pop, front, back, being copied from, being assigned to.  (No statement
\* applied to a live object changes its getSize().)
C15_SizeNeverChanges ==
    (lastC.op \in {"push", "pop", "front", "back", "assign"}) =>
        getSize(Obj(lastC.obj)) = lastC.was

\* C15 amended: push, pop, front, back and being copied from leave
\* getSize() as it was; an assignment gives the target the getSize() of
\* its source, which need not be the capacity the target was constructed
\* with.
C15_SizeChangesOnlyByAssignment ==
    [][ \A o \in ObjIds :
          (objs[o].alive /\ objs'[o].alive) =>
              IF lastC'.op = "assign" /\ lastC'.obj = o
              THEN getSize(objs'[o].rb) = getSize(Obj(lastC'.src))
              ELSE getSize(objs'[o].rb) = getSize(Obj(o)) ]_vars

\* C15 witness: a has just been assigned from a buffer of another
\* capacity and now reports that capacity.
C15_Witness ==
    /\ lastC.op = "assign"
    /\ lastC.obj = "a"
    /\ lastC.src = "b"
    /\ lastC.was = 1
    /\ getSize(Obj("a")) = 2
    /\ getSize(Obj("b")) = 2

\* C16: between calls, the head and tail cursors, as offsets from the
\* start of storage, are both in [0, capacity).
C16_CursorsBelowCapacity ==
    exists =>
        /\ rb.pHead \in 0 .. getSize(rb) - 1
        /\ rb.pTail \in 0 .. getSize(rb) - 1

\* C16 amended: between calls both cursors are in [0, capacity], the
\* upper end included: a cursor rests at capacity after the call that used
\* the last slot.
C16_CursorsUpToCapacity ==
    exists =>
        /\ rb.pHead \in 0 .. getSize(rb)
        /\ rb.pTail \in 0 .. getSize(rb)

\* C16 witness: a drained buffer with both cursors resting at capacity.
C16_Witness ==
    /\ exists
    /\ getSize(rb) >= 2
    /\ rb.pHead = getSize(rb)
    /\ rb.pTail = getSize(rb)
    /\ isEmpty(rb)

Phase(b) ==
    IF getCount(b) = 0 THEN "Empty"
    ELSE IF getCount(b) = getSize(b) THEN "Full"
    ELSE "Partial"

PushMoves ==
    {<<"Empty", "Partial">>, <<"Partial", "Partial">>, <<"Partial", "Full">>}

PopMoves ==
    {<<"Full", "Partial">>, <<"Partial", "Partial">>, <<"Partial", "Empty">>}

\* C17: for every capacity >= 1 a successful push takes the buffer
\* Empty->Partial, Partial->Partial or Partial->Full, and a successful pop
\* Full->Partial, Partial->Partial or Partial->Empty; none moves it
\* directly between Empty and Full.
C17_StateMachine ==
    [][ (exists /\ exists' /\ last'.err = NoErr) =>
          /\ last'.op = "push" => <<Phase(rb), Phase(rb')>> \in PushMoves
          /\ last'.op = "pop" => <<Phase(rb), Phase(rb')>> \in PopMoves ]_vars

\* C17 amended: the same for every capacity >= 2; with capacity 1 there
\* is no Partial state, a successful push takes the buffer Empty->Full and
\* a successful pop Full->Empty.
C17_StateMachineFromTwo ==
    [][ (exists /\ exists' /\ last'.err = NoErr) =>
          IF getSize(rb) >= 2
          THEN /\ last'.op = "push" =>
                     <<Phase(rb), Phase(rb')>> \in PushMoves
               /\ last'.op = "pop" =>
                     <<Phase(rb), Phase(rb')>> \in PopMoves
          ELSE /\ last'.op = "push" =>
                     <<Phase(rb), Phase(rb')>> = <<"Empty", "Full">>
               /\ last'.op = "pop" =>
                     <<Phase(rb), Phase(rb')>> = <<"Full", "Empty">> ]_vars

\* C17 witness: a pop has just taken a buffer of capacity >= 2 from Full to
\* Partial after its write pointer had wrapped.
C17_Witness ==
    /\ exists
    /\ last.op = "pop"
    /\ last.err = NoErr
    /\ getSize(rb) >= 2
    /\ getCount(rb) = getSize(rb) - 1
    /\ Len(pushed) > getSize(rb)

\* The number of consecutive pushes of value that succeed from (b, h), at
\* most n, and the buffer they leave.
RECURSIVE PushRun(_, _, _, _)
PushRun(b, h, value, n) ==
    IF n = 0
    THEN [n |-> 0, rb |-> b, heap |-> h]
    ELSE LET r == push(b, h, value)
         IN  IF r.err # NoErr
             THEN [n |-> 0, rb |-> b, heap |-> h]
             ELSE LET t == PushRun(r.rb, r.heap, value, n - 1)
                  IN  [t EXCEPT !.n = @ + 1]

\* C18: from any reachable state exactly getFree() further consecutive
\* pushes succeed and the next one throws the buffer-full error; from a
\* fresh buffer of capacity c exactly c succeed, the (c+1)-th fails and
\* getCount() is c afterwards.
C18_ExactlyFreePushes ==
    exists =>
        \A value \in Values :
            LET t == PushRun(rb, heap, value, getSize(rb) + 1)
            IN  /\ t.n = getFree(rb)
                /\ push(t.rb, t.heap, value).err = ErrFull
                /\ getCount(push(t.rb, t.heap, value).rb) = getSize(rb)
                /\ (last.op = "construct") => t.n = last.arg
                /\ (last.op = "push" /\ last.err = ErrFull) => t.n = 0

\* C18 witness: on a fresh buffer of the largest capacity c, c pushes have
\* succeeded and the (c+1)-th has just been refused.
C18_Witness ==
    /\ exists
    /\ getSize(rb) = MaxSize
    /\ last.op = "push"
    /\ last.err = ErrFull
    /\ Len(pushed) = MaxSize
    /\ Len(popped) = 0
    /\ getCount(rb) = MaxSize

\* C19: wrap-around.  After capacity pushes, m pops and m more pushes
\* (1 <= m < capacity) getCount() is getSize() again, isFull() holds, and
\* draining returns the capacity - m surviving old values followed by the m
\* new ones in push order.
C19_WrapAround ==
    exists =>
        \A m \in 1 .. getSize(rb) - 1 :
            (Len(pushed) = getSize(rb) + m /\ Len(popped) = m) =>
                /\ getCount(rb) = getSize(rb)
                /\ isFull(rb)
                /\ Drain(rb, heap) =
                      SubSeq(pushed, m + 1, getSize(rb))
                      \o SubSeq(pushed, getSize(rb) + 1, getSize(rb) + m)

\* C19 witness: capacity 3, filled, two popped, two more pushed; both
\* cursors stand at offset 2 and the two new values differ from each other.
C19_Witness ==
    /\ exists
    /\ getSize(rb) = 3
    /\ Len(pushed) = 5
    /\ Len(popped) = 2
    /\ last.op = "push"
    /\ last.err = NoErr
    /\ rb.pHead = 2
    /\ rb.pTail = 2
    /\ pushed[4] # pushed[5]

\* C20: isEmpty(), the stored flag, is true exactly when getCount() = 0
\* (no element is held), isFull() is true exactly when getCount() =
\* getSize() (capacity elements are held), and the two are never true
\* together.
C20_FlagsAgreeWithCount ==
    exists =>
        /\ isEmpty(rb) <=> getCount(rb) = 0
        /\ isEmpty(rb) <=> Len(pushed) = Len(popped)
        /\ isFull(rb) <=> getCount(rb) = getSize(rb)
        /\ isFull(rb) <=> Len(pushed) - Len(popped) = getSize(rb)
        /\ ~(isEmpty(rb) /\ isFull(rb))

\* C20 witness: a full buffer whose cursors coincide after a wrap, so only
\* the flag tells it from an empty one.
C20_Witness ==
    /\ exists
    /\ isFull(rb)
    /\ ~isEmpty(rb)
    /\ rb.pHead = rb.pTail
    /\ Len(popped) >= 1
    /\ getSize(rb) >= 2

\* C21: draining terminates.  From any reachable state the loop
\* while (!isEmpty()) pop(); ends after exactly getCount() iterations, none
\* of which throws, with getCount() = 0 and isEmpty() true.
C21_DrainTerminates ==
    /\ exists =>
          LET d == DrainLoop(rb, heap, DrainFuel)
          IN  /\ d.done
              /\ d.err = NoErr
              /\ d.iters = getCount(rb)
              /\ getCount(d.rb) = 0
              /\ isEmpty(d.rb)
    /\ (exists /\ last.op = "drain") =>
          /\ last.err = NoErr
          /\ last.ret <= getSize(rb)
          /\ getCount(rb) = 0
          /\ isEmpty(rb)
          /\ Len(popped) = Len(pushed)

\* C21 witness: the loop has just drained a full buffer of the largest
\* capacity whose elements lay across the end of the array.
C21_Witness ==
    /\ exists
    /\ last.op = "drain"
    /\ last.ret = MaxSize
    /\ getSize(rb) = MaxSize
    /\ Len(pushed) > MaxSize
    /\ rb.pHead # getSize(rb)
    /\ isEmpty(rb)

\* C22: errors are recoverable.  After a push has failed because the
\* buffer is full, one pop succeeds and the push right after it succeeds;
\* after a pop has failed because the buffer is empty, one push succeeds
\* and the pop right after it succeeds and returns the pushed value.
C22_ErrorsRecoverable ==
    exists =>
        /\ (last.op = "push" /\ last.err = ErrFull) =>
              LET p == pop(rb, heap)
              IN  /\ p.err = NoErr
                  /\ \A value \in Values :
                        push(p.rb, p.heap, value).err = NoErr
        /\ (last.op = "pop" /\ last.err = ErrNoRead) =>
              \A value \in Values :
                  LET q == push(rb, heap, value)
                      p == pop(q.rb, q.heap)
                  IN  /\ q.err = NoErr
                      /\ p.err = NoErr
                      /\ p.ret = value

\* C22 witness: a pop has just failed on a buffer that was filled and
\* drained before, so that both cursors rest at one past the end.
C22_Witness ==
    /\ exists
    /\ last.op = "pop"
    /\ last.err = ErrNoRead
    /\ getSize(rb) >= 2
    /\ Len(popped) = getSize(rb)
    /\ rb.pHead = getSize(rb)

\* The exceptions each of the three failures raises, obtained by running
\* the operation on fresh buffers of every capacity: construction with
\* size 0, push on a filled buffer, front/back/pop on an empty one.
NoHeap == [blk \in Blocks |-> FreeBlock]

InvalidCapacityErrors == {RingBuffer(0, NoHeap, 1).err}

BufferFullErrors ==
    {LET c == RingBuffer(sz, NoHeap, 1)
         t == PushRun(c.rb, c.heap, value, sz)
     IN  push(t.rb, t.heap, value).err : sz \in 1 .. MaxSize, value \in Values}

BufferEmptyErrors ==
    UNION {LET c == RingBuffer(sz, NoHeap, 1)
           IN  {front(c.rb, c.heap).err, back(c.rb, c.heap).err,
                pop(c.rb, c.heap).err} : sz \in 1 .. MaxSize}

\* The failure a failed call belongs to.
ErrorsOfKind(call) ==
    IF call.op = "construct" THEN InvalidCapacityErrors
    ELSE IF call.op = "push" THEN BufferFullErrors
    ELSE BufferEmptyErrors

ErrorsOfOtherKinds(call) ==
    (InvalidCapacityErrors \cup BufferFullErrors \cup BufferEmptyErrors)
        \ ErrorsOfKind(call)

\* C23: the three failures (capacity 0, push on a full buffer,
\* front/back/pop on an empty buffer) raise three different exception
\* types: the type of the exception a failed call raised is the type of no
\* exception of the other two failures.
C23_ThreeExceptionTypes ==
    last.err # NoErr =>
        \A e \in ErrorsOfOtherKinds(last) : e.type # last.err.type

\* C23 amended: the three failures are told apart by the exception as a
\* whole (type and what() message).  Capacity 0 raises
\* std::invalid_argument, a type of its own; push on a full buffer and
\* front/back/pop on an empty buffer both raise std::out_of_range and
\* differ in the message only.
C23_ThreeKindsTwoTypes ==
    last.err # NoErr =>
        /\ last.err \in ErrorsOfKind(last)
        /\ \A e \in ErrorsOfOtherKinds(last) : e # last.err
        /\ last.op = "construct" =>
              /\ last.err.type = "invalid_argument"
              /\ \A e \in ErrorsOfOtherKinds(last) : e.type # last.err.type
        /\ last.op # "construct" =>
              /\ last.err.type = "out_of_range"
              /\ \A e \in BufferFullErrors \cup BufferEmptyErrors :
                    /\ e.type = last.err.type
                    /\ e \in ErrorsOfOtherKinds(last) =>
                          e.what # last.err.what

\* C23 witness: a push has just been refused on a full buffer, with the
\* type that the empty-buffer failures raise too.
C23_Witness ==
    /\ exists
    /\ last.op = "push"
    /\ last.err = ErrFull
    /\ \E e \in BufferEmptyErrors : e.type = last.err.type

\* C24: whenever getCount() = 1, front() and back() refer to the same
\* element (the same slot) and return the same value.
C24_SingleElementFrontIsBack ==
    (exists /\ getCount(rb) = 1) =>
        /\ front(rb, heap).err = NoErr
        /\ back(rb, heap).err = NoErr
        /\ front(rb, heap).acc = back(rb, heap).acc
        /\ front(rb, heap).ret = back(rb, heap).ret
        /\ front(rb, heap).ret = pushed[Len(pushed)]

\* C24 witness: a single element pushed into a drained buffer whose read
\* pointer rests at one past the end while the write pointer has wrapped.
C24_Witness ==
    /\ exists
    /\ getCount(rb) = 1
    /\ last.op = "push"
    /\ last.err = NoErr
    /\ getSize(rb) >= 2
    /\ rb.pHead = getSize(rb)
    /\ rb.pTail = 1

\* C28: a successful pop leaves the buffer empty exactly when getCount()
\* was 1 right before it; the comparison _pHead == _pTail that pop makes
\* after moving _pHead is true exactly then, also when the buffer was full
\* or a cursor rested at one past the end.
C28_PopEmptiesIffLast ==
    [][ (exists /\ last'.op = "pop" /\ last'.err = NoErr) =>
          /\ isEmpty(rb') <=> getCount(rb) = 1
          /\ (rb'.pHead = rb'.pTail) <=> getCount(rb) = 1
          /\ getCount(rb') = 0 <=> getCount(rb) = 1 ]_vars

\* C28 witness: a pop has just emptied a buffer of capacity 1 that was
\* full, for the second time (the cursors had to be looped).
C28_Witness ==
    /\ exists
    /\ getSize(rb) = 1
    /\ last.op = "pop"
    /\ last.err = NoErr
    /\ isEmpty(rb)
    /\ Len(popped) = 2

\* C29: memory safety.  Every slot read or written by push, pop, front,
\* back (and the pops of a drain loop) lies in [0, getSize()), although
\* the cursors may rest at getSize() between calls.
C29_AccessesInBounds ==
    (exists /\ last.op \in {"push", "pop", "front", "back", "drain"}) =>
        /\ \A ofs \in last.acc : ofs >= 0 /\ ofs < getSize(rb)
        /\ \A ofs \in last.acc : InBounds(heap, rb.buf, ofs)
        /\ (last.err = NoErr /\ last.op # "drain") => last.acc # {}

\* C29 witness: a push has just written slot 0 after looping the write
\* pointer, while the read pointer rests at one past the end.
C29_Witness ==
    /\ exists
    /\ last.op = "push"
    /\ last.err = NoErr
    /\ last.acc = {0}
    /\ Len(pushed) > getSize(rb)
    /\ rb.pHead = getSize(rb)

\* The binomial coefficient by Pascal's rule.
RECURSIVE Choose(_, _)
Choose(n, k) ==
    IF k < 0 \/ k > n THEN 0
    ELSE IF k = 0 \/ k = n THEN 1
    ELSE Choose(n - 1, k - 1) + Choose(n - 1, k)

\* unsigned long long holds every value below this (and int every value
\* below 2^31).
NoOverflowBelow == 2 ^ 30

\* C27: binom(n, k) returns C(n, k) for all 0 <= k <= n up to a bound
\* where no intermediate product overflows, in the special cases k in
\* {0, 1, 2, n-2, n-1, n} and in the general loop, where every division by
\* (i + 1) is exact: after i iterations coeff is C(n, i).
C27_BinomIsChoose ==
    /\ bin.pc = "done" =>
          /\ bin.ret = Choose(bin.n, bin.k0)
          /\ bin.ret = binom(bin.n, bin.k0)
    /\ bin.pc \in {"loop", "done"} =>
          /\ bin.exact
          /\ bin.peak < NoOverflowBelow
          /\ bin.i <= bin.k
          /\ bin.coeff = Choose(bin.n, bin.i)

\* C27 witness: the general loop has returned C(10, 5) = 252 after five
\* iterations.
C27_Witness ==
    /\ bin.pc = "done"
    /\ bin.n = 10
    /\ bin.k0 = 5
    /\ bin.i = 5
    /\ bin.ret = 252

\* The vertices reachable from the set S along the edges in es.
RECURSIVE Reach(_, _, _)
Reach(vs, es, S) ==
    LET T == S \cup {w \in vs : \E x \in S : {x, w} \in es}
    IN  IF T = S THEN S ELSE Reach(vs, es, T)

\* The connected components of the graph (vs, es).
Components(vs, es) == {Reach(vs, es, {v}) : v \in vs}

\* G holds the edges es the way construct_rand_gnp stores them.
StoredAs(gp, es) ==
    \A u \in 0 .. gp.n - 1, v \in 0 .. gp.n - 1 :
        gp.G[u][v] = IF {u, v} \in es /\ u # v THEN u ELSE 0

\* C26: for every graph on n >= 1 vertices stored the way
\* construct_rand_gnp stores it (G[u][v] = u and G[v][u] = v for each
\* edge, 0 elsewhere), count_connected_components returns the number of
\* connected components and is_connected is true iff it is 1, although a
\* missing edge and an edge to vertex 0 both read as 0.
C26_ComponentsCounted ==
    graph.pc # "idle" =>
        LET vs == 0 .. graph.gp.n - 1
        IN  /\ StoredAs(graph.gp, graph.edges)
            /\ count_connected_components(graph.gp)
                  = Cardinality(Components(vs, graph.edges))
            /\ is_connected(graph.gp)
                  <=> Cardinality(Components(vs, graph.edges)) = 1
            /\ graph.pc = "examined" =>
                  /\ graph.cc = Cardinality(Components(vs, graph.edges))
                  /\ graph.conn <=> graph.cc = 1

\* C26 witness: an examined graph on the largest number of vertices with
\* an edge to vertex 0, a component that does not contain vertex 0 and more
\* than one vertex, and two components.
C26_Witness ==
    /\ graph.pc = "examined"
    /\ graph.gp.n = GraphMaxN
    /\ {0, 1} \in graph.edges
    /\ {2, 3} \in graph.edges
    /\ graph.cc = 2
    /\ ~graph.conn

\* The elements of a sequence.
Range(q) == {q[i] : i \in 1 .. Len(q)}

\* The Record addresses a register refers to from its vector and indices.
Referred(r) ==
    Range(r.employees_)
    \cup {r.name_idx_[k] : k \in DOMAIN r.name_idx_}
    \cup UNION {Range(r.dep_idx_[k]) : k \in DOMAIN r.dep_idx_}
    \cup UNION {Range(r.pos_idx_[k]) : k \in DOMAIN r.pos_idx_}

\* The number of places in the employee vectors of live registers that
\* hold address p.
Owners(rg, p) ==
    Cardinality({x \in RegIds \X (1 .. RegMaxRecords) :
                    /\ rg[x[1]].alive
                    /\ x[2] <= Len(rg[x[1]].r.employees_)
                    /\ rg[x[1]].r.employees_[x[2]] = p})

\* C25: Register deep copy.  A copy-constructed register has the source's
\* getSize() and, in the same order, records with the source records'
\* fields, at addresses of its own; the source is not changed; clearing or
\* destroying one register leaves the other's vector, indices and records
\* as they were; every Record that is deleted was alive (none is deleted
\* twice) and no Record outlives the register that holds it.
C25_RegisterDeepCopy ==
    [][ /\ lastR'.op = "copy" =>
              LET d == regs'[lastR'.reg].r
                  o == Reg(lastR'.src)
              IN  /\ regs'[lastR'.src] = regs[lastR'.src]
                  /\ RegisterGetSize(d) = RegisterGetSize(o)
                  /\ \A i \in 1 .. RegisterGetSize(o) :
                        /\ recs'[d.employees_[i]] = recs[o.employees_[i]]
                        /\ recs'[o.employees_[i]] = recs[o.employees_[i]]
                        /\ recs'[d.employees_[i]].live
                  /\ Referred(d) \cap Referred(o) = {}
                  /\ Referred(d) = Range(d.employees_)
        /\ lastR'.op \in {"clear", "destroy"} =>
              LET g == lastR'.reg
              IN  /\ ~lastR'.bad
                  /\ \A p \in Range(Reg(g).employees_) :
                        recs[p].live /\ ~recs'[p].live
                  /\ \A p \in RecIds \ Range(Reg(g).employees_) :
                        recs'[p] = recs[p]
                  /\ \A h \in RegIds \ {g} :
                        /\ regs'[h] = regs[h]
                        /\ \A p \in Referred(Reg(h)) : recs'[p].live
        /\ \A p \in RecIds :
              Owners(regs', p) = IF recs'[p].live THEN 1 ELSE 0 ]_vars

\* C25 witness: the current register has just been cleared while its copy
\* still holds two records, both alive.
C25_Witness ==
    /\ lastR.op = "clear"
    /\ lastR.reg = "reg"
    /\ RegLive("reg_copy")
    /\ RegisterGetSize(Reg("reg_copy")) = 2
    /\ \A p \in Range(Reg("reg_copy").employees_) : recs[p].live
    /\ Cardinality({p \in RecIds : recs[p].live}) = 2

\* The name index maps the name of every record of the vector to that
\* record.
NameIndexed(r, rh) ==
    \A p \in Range(r.employees_) :
        /\ rh[p].emp_name_ \in DOMAIN r.name_idx_
        /\ r.name_idx_[rh[p].emp_name_] = p

\* The department, position and subordinate indices hold every record of
\* the vector under its department, position and boss.
OtherwiseIndexed(r, rh) ==
    \A p \in Range(r.employees_) :
        /\ rh[p].emp_dep_ \in DOMAIN r.dep_idx_
        /\ p \in Range(r.dep_idx_[rh[p].emp_dep_])
        /\ rh[p].emp_pos_ \in DOMAIN r.pos_idx_
        /\ p \in Range(r.pos_idx_[rh[p].emp_pos_])
        /\ rh[p].emp_boss_ \in DOMAIN r.subord_idx_
        /\ rh[p].emp_name_ \in Range(r.subord_idx_[rh[p].emp_boss_])

\* No index refers to a record that is not in the vector.
NothingForeign(r) == Referred(r) \subseteq Range(r.employees_)

\* What holds of the indices whatever the names are.
RegisterIndexedButNames ==
    \A g \in RegIds :
        RegLive(g) =>
            /\ OtherwiseIndexed(Reg(g), recs)
            /\ NothingForeign(Reg(g))

\* C30: Register index consistency.  After any sequence of add and
\* clearRegister calls, for every record r of the employee vector the name
\* index maps r's name to r, the department and position index entries of
\* r's department and position contain r, the subordinate index entry of
\* r's boss contains r's name, and no index refers to a record that is not
\* in the vector.
C30_IndexConsistency ==
    \A g \in RegIds :
        RegLive(g) =>
            /\ NameIndexed(Reg(g), recs)
            /\ OtherwiseIndexed(Reg(g), recs)
            /\ NothingForeign(Reg(g))

\* C32: the tail cursor of a non-empty buffer.  Whenever the buffer is
\* non-empty the raw tail cursor is in [1, getSize()]; a tail at position 0
\* occurs only in a buffer on which no push has succeeded; so no call of
\* back() that returns a value finds the tail at position 0, which is the
\* only case in which back() takes its wrapping branch.
C32_BackNeverWraps ==
    /\ exists /\ ~isEmpty(rb) => rb.pTail \in 1 .. getSize(rb)
    /\ exists /\ rb.pTail = 0 => pushed = << >>
    /\ last.op = "back" /\ last.err = NoErr => rb.pTail # 0

\* back() has returned the element of the last slot after the write
\* pointer went round: the tail rests at getSize(), not at 0.
C32_Witness ==
    /\ exists
    /\ last.op = "back"
    /\ last.err = NoErr
    /\ last.acc = {getSize(rb) - 1}
    /\ rb.pTail = getSize(rb)
    /\ Len(pushed) > getSize(rb)

\* C33: self-assignment.  The statement a = a allocates and releases no
\* storage and leaves getSize(), head, tail, the empty flag and every
\* stored element of a unchanged.
C33_SelfAssignmentNoOp ==
    [][\A o \in ObjIds :
          AssignObj(o, o) =>
              /\ objs' = objs
              /\ heap' = heap
              /\ npush' = npush]_vars

\* A buffer holding elements has just been assigned to itself.
C33_Witness ==
    /\ lastC.op = "assign"
    /\ lastC.obj = lastC.src
    /\ Live(lastC.obj)
    /\ ~isEmpty(Obj(lastC.obj))
    /\ getCount(Obj(lastC.obj)) = getSize(Obj(lastC.obj))
    /\ getSize(Obj(lastC.obj)) > 1

\* C36: the two facts getCount() relies on.  Whenever the empty flag is
\* true the raw head and tail cursors are equal, and whenever the raw
\* cursors are equal while the flag is false the buffer holds exactly
\* getSize() live elements (pushed and not yet popped).
C36_FlagAndCursorFacts ==
    exists =>
        /\ rb.empty => rb.pHead = rb.pTail
        /\ (rb.pHead = rb.pTail /\ ~rb.empty) =>
               Len(pushed) - Len(popped) = getSize(rb)

\* A full buffer whose cursors meet in the middle of the array, after pops
\* and a wrap of the write pointer.
C36_Witness ==
    /\ exists
    /\ ~rb.empty
    /\ rb.pHead = rb.pTail
    /\ rb.pHead \in 1 .. getSize(rb) - 1
    /\ Len(popped) > 0
    /\ getCount(rb) = getSize(rb)

\* The index a lookup reads.
IndexOf(which, r) ==
    CASE which = "getRecByName" -> r.name_idx_
      [] which = "getEmpByDep" -> r.dep_idx_
      [] which = "getEmpByPos" -> r.pos_idx_
      [] which = "getSubordsByBoss" -> r.subord_idx_

\* C34: Register lookups.  getRecByName, getEmpByDep, getEmpByPos and
\* getSubordsByBoss called with a key absent from the corresponding index
\* raise an invalid-argument error and leave every index and the employee
\* vector unchanged (no empty entry is inserted for the key); called with a
\* present key they return the stored entry and also change nothing.
C34_LookupsChangeNothing ==
    [][\A which \in Lookups : \A key \in Keys(which) :
          CallLookup(which, key) =>
              LET idx == IndexOf(which, Reg("reg"))
              IN  /\ regs' = regs
                  /\ recs' = recs
                  /\ key \notin DOMAIN idx =>
                        lastR'.err.type = "invalid_argument"
                  /\ key \in DOMAIN idx =>
                        /\ lastR'.err = NoErr
                        /\ Lookup(which, Reg("reg"), key).ret = idx[key]]_vars

\* A department no employee belongs to has just been looked up in a
\* register that holds employees, and the lookup has thrown.
C34_Witness ==
    /\ RegLive("reg")
    /\ lastR.op = "getEmpByDep"
    /\ lastR.err = ErrDepNotFound
    /\ RegisterGetSize(Reg("reg")) > 0
    /\ lastR.src \notin DOMAIN Reg("reg").dep_idx_

\* C31: printSubordsByBoss terminates.  For every register, including
\* those whose boss relation contains a cycle or an employee who is their
\* own boss, a started printSubordsByBoss returns, its call stack never
\* holds more activations than there are names plus one, and the recursive
\* dfs is entered at most once per employee name.
C31_PrintTerminates ==
    /\ [](\A n \in DOMAIN walk.entered : walk.entered[n] <= 1)
    /\ [](walk.pc = "run" =>
             Len(walk.stack) <=
                 Cardinality(DOMAIN Reg("reg").name_idx_) + 1)
    /\ (walk.pc = "run") ~> (walk.pc = "done")

\* A print has returned on a register in which two employees are each
\* other's boss: dfs was entered for both, the one asked for included.
C31_Witness ==
    /\ walk.pc = "done"
    /\ walk.err = NoErr
    /\ walk.boss \in DOMAIN walk.entered
    /\ Cardinality(DOMAIN walk.entered) >= 2
    /\ \A n \in DOMAIN walk.entered : walk.entered[n] = 1
    /\ Len(walk.out) >= 2

\* C35: the draft under its driver.  In the early draft driven by its
\* driver (back() after every successful push, front() before every pop,
\* the turn after the buffer has been filled and fully drained included),
\* every front() and back() call dereferences a slot offset in
\* [0, getSize()).
C35_DraftAccessesInBounds ==
    (exists /\ last.op \in {"front", "back"}) =>
        \A ofs \in last.acc :
            /\ ofs >= 0
            /\ ofs < getSize(rb)
            /\ InBounds(heap, rb.buf, ofs)

====
